---- MODULE Spec2Model ----
(***************************************************************************)
(* Verification model of the HDL LRM pipeline (zephan-spencer/hdl-lrm-mcp). *)
(*                                                                         *)
(*   SpecChunk   chunk_text (embeddings/generate_embeddings.py)            *)
(*   SpecEmbed   embedding passes over a store of ingested sections        *)
(*               (embeddings/generate_embeddings.py)                       *)
(*   SpecClear   clear_embeddings on a store that holds embeddings         *)
(*               (embeddings/clear_embeddings.py)                          *)
(*   SpecParse   section extraction, native and fallback                   *)
(*               (parser/parse_lrm.py, parser/docling_utils.py)            *)
(*   SpecTables  table extraction and deduplication (parser/parse_lrm.py)  *)
(*   SpecStore   ingestion runs: LRMParser.run and store_in_database       *)
(*               (parser/parse_lrm.py)                                     *)
(*   SpecValidate  one validate invocation on a store                      *)
(*   SpecPasses  embedding passes and clear passes in sequence             *)
(*   SpecReingest  ingestion runs and embedding passes in sequence         *)
(*   SpecAssoc   code blocks and tables mapped to sections by page         *)
(*               (parser/parse_lrm.py)                                     *)
(*   SpecService  the query service and the start of an embedding pass     *)
(*               (embeddings/embedding_server.py, encode_query.py)         *)
(*               (parser/scripts/validate_extraction.py)                   *)
(*                                                                         *)
(* Text is a sequence of one-character strings.  Python's 0-based,         *)
(* end-exclusive slices are modelled by Slice.                             *)
(***************************************************************************)
EXTENDS Integers, Sequences, FiniteSets, TLC

VARIABLES
    \* ---- chunk_text call (SpecChunk) ----
    ck_text,        \* argument text
    ck_size,        \* argument chunk_size
    ck_overlap,     \* argument overlap
    ck_result,      \* returned list of chunks
    ck_pc           \* "idle" | "called" | "returned"

chunkVars == <<ck_text, ck_size, ck_overlap, ck_result, ck_pc>>

VARIABLES
    \* ---- the store (SQLite database) ----
    db_sections,    \* rows of table sections
    db_emb,         \* rows of table section_embeddings
    db_emb_seq      \* AUTOINCREMENT counter of section_embeddings

VARIABLES
    \* ---- one embedding pass, EmbeddingGenerator.run (SpecEmbed) ----
    em_pc,          \* position of the pass
    em_model,       \* self.model_name
    em_language,    \* language filter or None
    em_batch_size,  \* batch_size
    em_device,      \* "cpu" | "cuda"
    em_sections,    \* result of get_sections_without_embeddings
    em_i,           \* start index of the current batch (0-based)
    em_all_chunks,  \* all_chunks
    em_map,         \* chunk_to_section_map (0-based section indices)
    em_chunk_embeddings,    \* encoder output, one vector per chunk
    em_section_embeddings,  \* one averaged vector per section of the batch
    em_gpu_cache,   \* TRUE while the accelerator holds cached buffers
    em_processed,   \* processed
    em_encoder_calls, \* number of encoder calls of the pass
    em_exit         \* exit status of the last pass: NoInt | 0 | 1

embVars == <<em_pc, em_model, em_language, em_batch_size, em_device,
             em_sections, em_i, em_all_chunks, em_map, em_chunk_embeddings,
             em_section_embeddings, em_gpu_cache, em_processed,
             em_encoder_calls, em_exit>>

VARIABLES
    \* ---- clear_embeddings call (SpecEmbed) ----
    cl_pc,          \* "idle" | "prompt" | "done"
    cl_args,        \* [model, language, clear_all]
    cl_response,    \* answer typed at the prompt
    cl_count_before,
    cl_deleted,     \* reported number of deleted rows, None if not reported
    cl_pre_emb,     \* history: section_embeddings when the call started
    cl_pre_sections \* history: sections when the call started

clearVars == <<cl_pc, cl_args, cl_response, cl_count_before, cl_deleted,
               cl_pre_emb, cl_pre_sections>>

dbEmbVars == <<db_sections, db_emb, db_emb_seq>>

VARIABLES
    \* ---- section extraction, LRMParser.extract_sections (SpecParse) ----
    ex_pc,          \* "idle" | "native" | "fallback" | "done"
    ex_n,           \* number of items (native) or lines (fallback) consumed
    ex_sections,    \* native: the list sections
    ex_current,     \* native: current_section, or None
    fb_heap,        \* fallback: the section dicts created so far
    fb_sections,    \* fallback: the list sections, as references into fb_heap
    fb_current,     \* fallback: current_section as a reference, 0 for None
    fb_content_lines, \* fallback: content_lines
    ex_result,      \* the returned list of sections
    ex_hist,        \* history: the stream elements behind each emitted section
    ex_cur_hist     \* history: the stream elements behind current_section

parseVars == <<ex_pc, ex_n, ex_sections, ex_current, fb_heap, fb_sections,
               fb_current, fb_content_lines, ex_result, ex_hist, ex_cur_hist>>

VARIABLES
    \* ---- table extraction, LRMParser.extract_tables (SpecTables) ----
    tb_pc,          \* "idle" | "called" | "returned"
    tb_sections,    \* argument sections
    tb_tables,      \* doc.tables
    tb_result       \* tables_by_section, seen_table_hashes, duplicates_skipped

tableVars == <<tb_pc, tb_sections, tb_tables, tb_result>>

VARIABLES
    \* ---- the store, tables written by the parser ----
    db_code,        \* rows of table code_examples
    db_tables,      \* rows of table tables
    db_meta,        \* rows of table parse_metadata
    db_seq          \* AUTOINCREMENT counters of the four tables

VARIABLES
    \* ---- one ingestion run, LRMParser.run (SpecStore) ----
    rp_pc,          \* "idle" | "purge" | "sections" | "code" | "tables" |
                    \* "meta" | "committed" | "failed"
    rp_language,    \* self.language
    rp_doc,         \* the extracted sections and the document's artifacts
    rp_code_by_section,
    rp_tables_by_section,
    rp_section_ids, \* section_ids
    rp_k,           \* index in the loop of the current stage
    rp_stats,       \* self.stats
    rp_tx,          \* the open transaction of the connection, if any
    rp_pre,         \* history: the store when the run started
    rp_fault,       \* history: a statement of the run raised an I/O error
    rp_exit,        \* exit status of the run: NoInt | 0 | 1
    rp_runs         \* number of runs started

storeVars == <<db_code, db_tables, db_meta, db_seq>>

runVars == <<rp_pc, rp_language, rp_doc, rp_code_by_section,
             rp_tables_by_section, rp_section_ids, rp_k, rp_stats, rp_tx,
             rp_pre, rp_fault, rp_exit, rp_runs>>

VARIABLES
    \* ---- one validate invocation, validate_extraction.py (SpecValidate) ----
    vd_pc,          \* "idle" | "hierarchy" | "duplicates" | "pages" |
                    \* "parents" | "code" | "tables" | "statistics" |
                    \* "report" | "returned" | "exited"
    vd_language,    \* args.language, None without the option
    vd_issues,      \* self.issues
    vd_stats,       \* self.stats
    vd_status,      \* the value returned by print_report
    vd_exit         \* exit status of the process

valVars == <<vd_pc, vd_language, vd_issues, vd_stats, vd_status, vd_exit>>

VARIABLES
    \* ---- the connection of an embedding pass (generate_embeddings.py) ----
    em_conn,        \* self.conn is open
    em_tx           \* the rows inserted since the last commit of self.conn

VARIABLES
    \* ---- the query service: embedding_server.py and encode_query.py ----
    sv_pc,          \* "init" | "serving" | "exited"
    sv_model,       \* the global model: None or the loaded encoder
    sv_model_name,  \* the global model_name
    sv_request,     \* the last request of POST /encode
    sv_response,    \* the response to it
    sv_exit,        \* exit status of the server process
    cq_pc,          \* encode_query.py: "idle" | "exited"
    cq_output,      \* the JSON document encode_query.py printed
    cq_exit         \* exit status of encode_query.py

connVars == <<em_conn, em_tx>>

queryVars == <<sv_pc, sv_model, sv_model_name, sv_request, sv_response,
               sv_exit, cq_pc, cq_output, cq_exit>>

VARIABLES
    \* ---- the Content Associator on one document (SpecAssoc) ----
    as_pc,          \* "idle" | "called" | "returned"
    as_sections,    \* the extracted sections, in build order
    as_code,        \* the fenced code blocks of the markdown
    as_tables,      \* doc.tables
    as_code_result, \* code_by_section
    as_tables_result \* tables_by_section

assocVars == <<as_pc, as_sections, as_code, as_tables, as_code_result,
               as_tables_result>>

vars == <<chunkVars, dbEmbVars, embVars, clearVars, parseVars, tableVars,
          storeVars, runVars, valVars, connVars, queryVars, assocVars>>

----------------------------------------------------------------------------
(* Bounds *)

MaxTextLen == 7
MaxChunkSize == 4

----------------------------------------------------------------------------
(* Generic helpers *)

Min(a, b) == IF a < b THEN a ELSE b
Max(a, b) == IF a > b THEN a ELSE b

Range(s) == {s[i] : i \in DOMAIN s}

\* Python s[a:b] for 0 <= a, 0 <= b
Slice(s, a, b) == SubSeq(s, a + 1, Min(b, Len(s)))

\* all sequences over S of length at most n
SeqsUpTo(S, n) == UNION {[1..k -> S] : k \in 0..n}

----------------------------------------------------------------------------
(* chunk_text: generate_embeddings.py 47-79 *)

RECURSIVE ChunkLoop(_, _, _, _, _)
ChunkLoop(text, chunk_size, overlap, start, chunks) ==
    IF start < Len(text)
    THEN LET end   == Min(start + chunk_size, Len(text))
             chunk == Slice(text, start, end)
             out   == Append(chunks, chunk)
         IN  IF end = Len(text)
             THEN out
             ELSE ChunkLoop(text, chunk_size, overlap,
                            start + (chunk_size - overlap), out)
    ELSE chunks

\* mutant: the window advances by chunk_size, the overlap is forgotten
chunk_text_no_overlap(text, chunk_size, overlap) ==
    IF Len(text) <= chunk_size
    THEN <<text>>
    ELSE ChunkLoop(text, chunk_size, 0, 0, <<>>)

chunk_text(text, chunk_size, overlap) ==
    IF Len(text) <= chunk_size
    THEN <<text>>
    ELSE ChunkLoop(text, chunk_size, overlap, 0, <<>>)

TextChars == {"a", "b"}

ChunkInit ==
    /\ ck_text = <<>>
    /\ ck_size = 2
    /\ ck_overlap = 1
    /\ ck_result = <<>>
    /\ ck_pc = "idle"

\* a caller picks the arguments (0 < overlap < chunk_size)
ChunkCall ==
    /\ ck_pc = "idle"
    /\ \E t \in SeqsUpTo(TextChars, MaxTextLen), w \in 2..MaxChunkSize :
         \E o \in 1..(w - 1) :
            /\ ck_text' = t
            /\ ck_size' = w
            /\ ck_overlap' = o
    /\ ck_result' = <<>>
    /\ ck_pc' = "called"
    /\ UNCHANGED <<dbEmbVars, embVars, clearVars, parseVars, tableVars, storeVars, runVars, valVars, connVars, queryVars, assocVars>>

ChunkReturn ==
    /\ ck_pc = "called"
    /\ ck_result' = chunk_text(ck_text, ck_size, ck_overlap)
    /\ ck_pc' = "returned"
    /\ UNCHANGED <<ck_text, ck_size, ck_overlap>>
    /\ UNCHANGED <<dbEmbVars, embVars, clearVars, parseVars, tableVars, storeVars, runVars, valVars, connVars, queryVars, assocVars>>


----------------------------------------------------------------------------
(* The store as the embedding tools see it *)

\* Python's None, by the type of the value it stands in for
None == "None"
NoText == <<"None">>
NoInt == -1
NoSection == [none |-> TRUE]

Languages == {"verilog", "vhdl"}
Models == {"M", "N"}

\* byte order of the language names (ORDER BY s.language)
LangOrd(l) == IF l = "systemverilog" THEN 1 ELSE IF l = "verilog" THEN 2 ELSE 3

\* byte order of the characters that occur in section numbers
CharOrd(c) ==
    CASE c = "." -> 46
      [] c = "0" -> 48 [] c = "1" -> 49 [] c = "2" -> 50 [] c = "3" -> 51
      [] c = "_" -> 95
      [] OTHER   -> 110

\* a < b for TEXT values under SQLite's BINARY collation
RECURSIVE StrLess(_, _)
StrLess(a, b) ==
    IF b = <<>> THEN FALSE
    ELSE IF a = <<>> THEN TRUE
    ELSE IF CharOrd(Head(a)) # CharOrd(Head(b))
         THEN CharOrd(Head(a)) < CharOrd(Head(b))
         ELSE StrLess(Tail(a), Tail(b))

\* ORDER BY s.language, s.section_number
SectionBefore(r, s) ==
    \/ LangOrd(r.language) < LangOrd(s.language)
    \/ /\ r.language = s.language
       /\ StrLess(r.section_number, s.section_number)

\* the rows of S as a list in ORDER BY order (ties by rowid)
RECURSIVE OrderBy(_)
OrderBy(S) ==
    IF S = {} THEN <<>>
    ELSE LET first == CHOOSE r \in S :
                        \A q \in S \ {r} :
                            \/ SectionBefore(r, q)
                            \/ (~SectionBefore(q, r) /\ r.id < q.id)
         IN  <<first>> \o OrderBy(S \ {first})

\* mutant: the query has no LEFT JOIN, every section of the scope is a target
get_sections_every_section(sections, emb, model_name, language) ==
    OrderBy({s \in sections : language # None => s.language = language})

\* generate_embeddings.py 132-154
get_sections_without_embeddings(sections, emb, model_name, language) ==
    OrderBy({s \in sections :
                /\ ~\E e \in emb : /\ e.section_id = s.id
                                   /\ e.embedding_model = model_name
                /\ (language # None => s.language = language)})

----------------------------------------------------------------------------
(* The encoder (collaborator) and the aggregation of process_sections *)

\* the window of the call chunk_text(text, chunk_size=6000, overlap=600),
\* scaled to the text lengths of the model
EmbChunkSize == 4
EmbOverlap == 1

\* dimension of the encoder's vectors
Dim == 2

CharCode(c) ==
    CASE c = "a" -> 1 [] c = "b" -> 2 [] c = "t" -> 3 [] c = "u" -> 4
      [] OTHER -> 7

RECURSIVE CodeSum(_, _)
CodeSum(chunk, weight) ==
    IF chunk = <<>> THEN 0
    ELSE weight * CharCode(Head(chunk)) + CodeSum(Tail(chunk), weight + 1)

\* self.model.encode on one string: a deterministic vector of dimension Dim
Encode(chunk) == <<Len(chunk), CodeSum(chunk, 1)>>

\* self.model.encode on a list of strings, generate_embeddings.py 231-236
EncodeBatch(chunks) == [i \in 1..Len(chunks) |-> Encode(chunks[i])]

RECURSIVE Gcd(_, _)
Gcd(a, b) == IF b = 0 THEN a ELSE Gcd(b, a % b)

\* the exact quotient n/d in lowest terms
Rat(n, d) == LET g == Gcd(n, d) IN [num |-> n \div g, den |-> d \div g]

RECURSIVE SumAt(_, _)
SumAt(vs, d) == IF vs = <<>> THEN 0 ELSE Head(vs)[d] + SumAt(Tail(vs), d)

\* np.mean(vectors, axis=0)
Mean(vs) == [d \in 1..Dim |-> Rat(SumAt(vs, d), Len(vs))]

\* f"{title}\n\n{content}"
EmbedText(row) == row.title \o <<"\n", "\n">> \o row.content

\* generate_embeddings.py 211-225: all_chunks and chunk_to_section_map
RECURSIVE PrepareChunks(_, _, _, _)
PrepareChunks(batch, section_idx, all_chunks, map) ==
    IF section_idx >= Len(batch) THEN [chunks |-> all_chunks, map |-> map]
    ELSE LET chunks == chunk_text(EmbedText(batch[section_idx + 1]),
                                  EmbChunkSize, EmbOverlap)
         IN  PrepareChunks(batch, section_idx + 1,
                           all_chunks \o chunks,
                           map \o [k \in 1..Len(chunks) |-> section_idx])

\* generate_embeddings.py 243-251: the loop over chunk_to_section_map
RECURSIVE GroupLoop(_, _, _, _, _, _)
GroupLoop(map, chunk_embeddings, chunk_idx, current_section_idx, chunks_for_current_section, section_embeddings) ==
    IF chunk_idx >= Len(map)
    THEN [section_embeddings |-> section_embeddings,
          chunks_for_current_section |-> chunks_for_current_section]
    ELSE LET section_idx == map[chunk_idx + 1]
             v == chunk_embeddings[chunk_idx + 1]
         IN  IF section_idx # current_section_idx
             THEN GroupLoop(map, chunk_embeddings, chunk_idx + 1, section_idx,
                            <<v>>,
                            Append(section_embeddings,
                                   Mean(chunks_for_current_section)))
             ELSE GroupLoop(map, chunk_embeddings, chunk_idx + 1,
                            current_section_idx,
                            Append(chunks_for_current_section, v),
                            section_embeddings)

\* the loop of GroupAndAverageNoReset
RECURSIVE GroupLoopNoReset(_, _, _, _, _, _)
GroupLoopNoReset(map, chunk_embeddings, chunk_idx, current_section_idx, chunks_for_current_section, section_embeddings) ==
    IF chunk_idx >= Len(map)
    THEN [section_embeddings |-> section_embeddings,
          chunks_for_current_section |-> chunks_for_current_section]
    ELSE LET section_idx == map[chunk_idx + 1]
             v == chunk_embeddings[chunk_idx + 1]
         IN  IF section_idx # current_section_idx
             THEN GroupLoopNoReset(map, chunk_embeddings, chunk_idx + 1,
                            section_idx,
                            Append(chunks_for_current_section, v),
                            Append(section_embeddings,
                                   Mean(chunks_for_current_section)))
             ELSE GroupLoopNoReset(map, chunk_embeddings, chunk_idx + 1,
                            current_section_idx,
                            Append(chunks_for_current_section, v),
                            section_embeddings)

\* mutant: chunks_for_current_section is not emptied when the next section
\* starts, so later sections average over the chunks of earlier ones
GroupAndAverageNoReset(map, chunk_embeddings) ==
    LET r == GroupLoopNoReset(map, chunk_embeddings, 0, 0, <<>>, <<>>)
    IN  IF r.chunks_for_current_section # <<>>
        THEN Append(r.section_embeddings, Mean(r.chunks_for_current_section))
        ELSE r.section_embeddings

\* generate_embeddings.py 238-256
GroupAndAverage(map, chunk_embeddings) ==
    LET r == GroupLoop(map, chunk_embeddings, 0, 0, <<>>, <<>>)
    IN  IF r.chunks_for_current_section # <<>>
        THEN Append(r.section_embeddings, Mean(r.chunks_for_current_section))
        ELSE r.section_embeddings

\* sections[i : i + batch_size]
CurrentBatch == Slice(em_sections, em_i, em_i + em_batch_size)


----------------------------------------------------------------------------
(* Initial store of SpecEmbed: sections already ingested, no embeddings *)

MaxBatchSize == 2

\* one text of one chunk, one of two chunks, one of three chunks
EmbContents == { <<"a">>, <<"a", "b", "a">>, <<"b", "b", "a", "b", "a", "a">> }

SectionRow(id, language, number, parent, title, content, ps, pe, depth) ==
    [id |-> id, language |-> language, section_number |-> number,
     parent_section |-> parent, title |-> title, content |-> content,
     page_start |-> ps, page_end |-> pe, depth |-> depth]

EmbStoreInit ==
    /\ \E c1 \in EmbContents, c2 \in EmbContents, c3 \in EmbContents :
         db_sections =
            { SectionRow(1, "verilog", <<"2">>, NoText, <<"t">>, c1, 1, 1, 0),
              SectionRow(2, "verilog", <<"1">>, NoText, <<"t">>, c2, 1, 1, 0),
              SectionRow(3, "vhdl",    <<"1">>, NoText, <<"u">>, c3, 1, 1, 0) }
    /\ db_emb = {}
    /\ db_emb_seq = 0

\* store_embedding 161-175: the row inserted for the j-th section of a batch
EmbeddingRow(id, section, model, embedding) ==
    [id |-> id, section_id |-> section.id, language |-> section.language,
     embedding_model |-> model, embedding |-> embedding]

\* the vector process_sections stores for a section
SectionVector(row) ==
    LET p == PrepareChunks(<<row>>, 0, <<>>, <<>>)
    IN  GroupAndAverage(p.map, EncodeBatch(p.chunks))[1]

\* Initial store of SpecClear: the sections of EmbStoreInit after embedding
\* passes and clears, every (section, model) pair embedded or not
ClearStoreInit ==
    /\ db_sections =
          { SectionRow(1, "verilog", <<"2">>, NoText, <<"t">>, <<"a">>, 1, 1, 0),
            SectionRow(2, "verilog", <<"1">>, NoText, <<"t">>, <<"a", "b", "a">>, 1, 1, 0),
            SectionRow(3, "vhdl",    <<"1">>, NoText, <<"u">>, <<"a">>, 1, 1, 0) }
    /\ \E present \in SUBSET (db_sections \X Models) :
          db_emb = { EmbeddingRow(IF p[2] = "M" THEN p[1].id ELSE 3 + p[1].id,
                                  p[1], p[2], SectionVector(p[1])) :
                     p \in present }
    /\ db_emb_seq = 6

\* a store whose schema was created and that holds no rows
EmptyStoreInit ==
    /\ db_sections = {}
    /\ db_emb = {}
    /\ db_emb_seq = 0

EmbInit ==
    /\ em_pc = "idle"
    /\ em_model = None
    /\ em_language = None
    /\ em_batch_size = 1
    /\ em_device = "cpu"
    /\ em_sections = <<>>
    /\ em_i = 0
    /\ em_all_chunks = <<>>
    /\ em_map = <<>>
    /\ em_chunk_embeddings = <<>>
    /\ em_section_embeddings = <<>>
    /\ em_gpu_cache = FALSE
    /\ em_processed = 0
    /\ em_encoder_calls = 0
    /\ em_exit = NoInt

ClearInit ==
    /\ cl_pc = "idle"
    /\ cl_args = [model |-> None, language |-> None, clear_all |-> FALSE]
    /\ cl_response = None
    /\ cl_count_before = 0
    /\ cl_deleted = NoInt
    /\ cl_pre_emb = {}
    /\ cl_pre_sections = {}

----------------------------------------------------------------------------
(* EmbeddingGenerator.run and process_sections, one batch step at a time *)

\* run 350-371 and process_sections 179-198: the model is loaded, the store
\* is opened and the sections lacking a vector for the model are queried
EmbStart(model, language, batch_size, device) ==
    /\ em_pc = "idle"
    /\ LET sections == get_sections_without_embeddings(db_sections, db_emb,
                                                        model, language)
       IN  /\ em_sections' = sections
           /\ em_pc' = IF sections = <<>> THEN "complete" ELSE "prepare"
    /\ em_model' = model
    /\ em_language' = language
    /\ em_batch_size' = batch_size
    /\ em_device' = device
    /\ em_i' = 0
    /\ em_processed' = 0
    /\ em_encoder_calls' = 0
    /\ em_exit' = NoInt
    /\ UNCHANGED <<em_all_chunks, em_map, em_chunk_embeddings,
                   em_section_embeddings, em_gpu_cache>>
    /\ em_conn' = TRUE
    /\ em_tx' = {}
    /\ UNCHANGED <<chunkVars, dbEmbVars, clearVars, parseVars, tableVars, storeVars, runVars, valVars, queryVars, assocVars>>

\* process_sections 201-225
EmbPrepare ==
    /\ em_pc = "prepare"
    /\ LET r == PrepareChunks(CurrentBatch, 0, <<>>, <<>>)
       IN  /\ em_all_chunks' = r.chunks
           /\ em_map' = r.map
    /\ em_pc' = "encode"
    /\ UNCHANGED <<em_model, em_language, em_batch_size, em_device,
                   em_sections, em_i, em_chunk_embeddings,
                   em_section_embeddings, em_gpu_cache, em_processed,
                   em_encoder_calls, em_exit>>
    /\ UNCHANGED <<chunkVars, dbEmbVars, clearVars, parseVars, tableVars, storeVars, runVars, valVars, connVars, queryVars, assocVars>>

\* process_sections 229-236: one encoder call for the whole batch
EmbEncode ==
    /\ em_pc = "encode"
    /\ em_chunk_embeddings' = EncodeBatch(em_all_chunks)
    /\ em_encoder_calls' = em_encoder_calls + 1
    /\ em_gpu_cache' = (em_device = "cuda")
    /\ em_pc' = "aggregate"
    /\ UNCHANGED <<em_model, em_language, em_batch_size, em_device,
                   em_sections, em_i, em_all_chunks, em_map,
                   em_section_embeddings, em_processed, em_exit>>
    /\ UNCHANGED <<chunkVars, dbEmbVars, clearVars, parseVars, tableVars, storeVars, runVars, valVars, connVars, queryVars, assocVars>>

\* process_sections 238-256
EmbAggregate ==
    /\ em_pc = "aggregate"
    /\ em_section_embeddings' = GroupAndAverage(em_map, em_chunk_embeddings)
    /\ em_pc' = "store"
    /\ UNCHANGED <<em_model, em_language, em_batch_size, em_device,
                   em_sections, em_i, em_all_chunks, em_map,
                   em_chunk_embeddings, em_gpu_cache, em_processed,
                   em_encoder_calls, em_exit>>
    /\ UNCHANGED <<chunkVars, dbEmbVars, clearVars, parseVars, tableVars, storeVars, runVars, valVars, connVars, queryVars, assocVars>>

\* process_sections 259-262
EmbStore ==
    /\ em_pc = "store"
    /\ LET batch == CurrentBatch
       IN  /\ db_emb' = db_emb \cup
                 { EmbeddingRow(db_emb_seq + j, batch[j], em_model,
                                em_section_embeddings[j]) : j \in 1..Len(batch) }
           /\ db_emb_seq' = db_emb_seq + Len(batch)
           /\ em_processed' = em_processed + Len(batch)
           /\ em_tx' =
                 { EmbeddingRow(db_emb_seq + j, batch[j], em_model,
                                em_section_embeddings[j]) : j \in 1..Len(batch) }
    /\ em_pc' = "release"
    /\ UNCHANGED <<em_model, em_language, em_batch_size, em_device,
                   em_sections, em_i, em_all_chunks, em_map,
                   em_chunk_embeddings, em_section_embeddings, em_gpu_cache,
                   em_encoder_calls, em_exit>>
    /\ UNCHANGED <<chunkVars, db_sections, clearVars, parseVars, tableVars, storeVars, runVars, valVars, em_conn, queryVars, assocVars>>

\* process_sections 266-271: the buffers are deleted, the batch is committed
EmbRelease ==
    /\ em_pc = "release"
    /\ em_chunk_embeddings' = <<>>
    /\ em_all_chunks' = <<>>
    /\ em_section_embeddings' = <<>>
    /\ em_pc' = "cache"
    /\ UNCHANGED <<em_model, em_language, em_batch_size, em_device,
                   em_sections, em_i, em_map, em_gpu_cache, em_processed,
                   em_encoder_calls, em_exit>>
    /\ em_tx' = {}
    /\ UNCHANGED <<chunkVars, dbEmbVars, clearVars, parseVars, tableVars, storeVars, runVars, valVars, em_conn, queryVars, assocVars>>

\* mutant: the accelerator cache is not cleared after a batch
EmbClearCacheSkipped ==
    /\ em_pc = "cache"
    /\ em_gpu_cache' = em_gpu_cache
    /\ em_i' = em_i + em_batch_size
    /\ em_pc' = IF em_i + em_batch_size < Len(em_sections)
                THEN "prepare" ELSE "complete"
    /\ UNCHANGED <<em_model, em_language, em_batch_size, em_device,
                   em_sections, em_all_chunks, em_map, em_chunk_embeddings,
                   em_section_embeddings, em_processed, em_encoder_calls,
                   em_exit>>
    /\ UNCHANGED <<chunkVars, dbEmbVars, clearVars, parseVars, tableVars, storeVars, runVars, valVars, connVars, queryVars, assocVars>>

\* process_sections 273-275 and the step of the for loop at 201
EmbClearCache ==
    /\ em_pc = "cache"
    /\ em_gpu_cache' = IF em_device = "cuda" THEN FALSE ELSE em_gpu_cache
    /\ em_i' = em_i + em_batch_size
    /\ em_pc' = IF em_i + em_batch_size < Len(em_sections)
                THEN "prepare" ELSE "complete"
    /\ UNCHANGED <<em_model, em_language, em_batch_size, em_device,
                   em_sections, em_all_chunks, em_map, em_chunk_embeddings,
                   em_section_embeddings, em_processed, em_encoder_calls,
                   em_exit>>
    /\ UNCHANGED <<chunkVars, dbEmbVars, clearVars, parseVars, tableVars, storeVars, runVars, valVars, connVars, queryVars, assocVars>>

\* run 373-391: the pass returns, the store is closed, the process exits
EmbComplete ==
    /\ em_pc = "complete"
    /\ em_exit' = 0
    /\ em_pc' = "idle"
    /\ em_model' = None
    /\ em_language' = None
    /\ em_batch_size' = 1
    /\ em_device' = "cpu"
    /\ em_sections' = <<>>
    /\ em_i' = 0
    /\ em_map' = <<>>
    /\ em_processed' = 0
    /\ em_encoder_calls' = 0
    /\ UNCHANGED <<em_all_chunks, em_chunk_embeddings, em_section_embeddings,
                   em_gpu_cache>>
    /\ em_conn' = FALSE
    /\ em_tx' = {}
    /\ UNCHANGED <<chunkVars, dbEmbVars, clearVars, parseVars, tableVars, storeVars, runVars, valVars, queryVars, assocVars>>

\* run 350-354 and 384-391: load_model raises, the error is printed, the
\* process exits with status 1; connect_db (358) was not reached and
\* close_db finds no connection
EmbLoadFails(model) ==
    /\ em_pc = "idle"
    /\ em_model' = model
    /\ em_exit' = 1
    /\ UNCHANGED <<em_pc, em_language, em_batch_size, em_device, em_sections,
                   em_i, em_all_chunks, em_map, em_chunk_embeddings,
                   em_section_embeddings, em_gpu_cache, em_processed,
                   em_encoder_calls>>
    /\ UNCHANGED <<chunkVars, dbEmbVars, clearVars, parseVars, tableVars, storeVars, runVars, valVars, connVars, queryVars, assocVars>>

\* mutant: the rows inserted since the last commit survive the failure
EmbFailsNoRollback ==
    /\ em_pc \in {"encode", "store", "release"}
    /\ db_emb' = db_emb
    /\ db_emb_seq' = db_emb_seq
    /\ em_tx' = {}
    /\ em_conn' = FALSE
    /\ em_exit' = 1
    /\ em_pc' = "idle"
    /\ em_model' = None
    /\ em_language' = None
    /\ em_batch_size' = 1
    /\ em_device' = "cpu"
    /\ em_sections' = <<>>
    /\ em_i' = 0
    /\ em_all_chunks' = <<>>
    /\ em_map' = <<>>
    /\ em_chunk_embeddings' = <<>>
    /\ em_section_embeddings' = <<>>
    /\ em_gpu_cache' = FALSE
    /\ em_processed' = 0
    /\ em_encoder_calls' = 0
    /\ UNCHANGED <<chunkVars, db_sections, clearVars, parseVars, tableVars, storeVars, runVars, valVars, queryVars, assocVars>>

\* process_sections 229-271 and run 384-391: model.encode, an INSERT of
\* store_embedding or the commit raises; the exception leaves the loop, run
\* prints it and exits with status 1, close_db closes the connection and
\* SQLite rolls back the rows inserted since the last commit
EmbFails ==
    /\ em_pc \in {"encode", "store", "release"}
    /\ db_emb' = db_emb \ em_tx
    /\ db_emb_seq' = db_emb_seq - Cardinality(em_tx)
    /\ em_tx' = {}
    /\ em_conn' = FALSE
    /\ em_exit' = 1
    /\ em_pc' = "idle"
    /\ em_model' = None
    /\ em_language' = None
    /\ em_batch_size' = 1
    /\ em_device' = "cpu"
    /\ em_sections' = <<>>
    /\ em_i' = 0
    /\ em_all_chunks' = <<>>
    /\ em_map' = <<>>
    /\ em_chunk_embeddings' = <<>>
    /\ em_section_embeddings' = <<>>
    /\ em_gpu_cache' = FALSE
    /\ em_processed' = 0
    /\ em_encoder_calls' = 0
    /\ UNCHANGED <<chunkVars, db_sections, clearVars, parseVars, tableVars, storeVars, runVars, valVars, queryVars, assocVars>>

----------------------------------------------------------------------------
(* clear_embeddings: clear_embeddings.py 19-102 *)

\* the rows selected by the WHERE clause of lines 38-49 and 78-89
ClearSelected(emb, args) ==
    IF args.clear_all THEN emb
    ELSE IF args.language # None
         THEN {e \in emb : /\ e.embedding_model = args.model
                            /\ e.language = args.language}
         ELSE {e \in emb : e.embedding_model = args.model}

\* mutant: the language filter deletes the language's rows of every model
ClearDeletedAnyModel(emb, args) ==
    IF args.clear_all THEN emb
    ELSE IF args.language # None
         THEN {e \in emb : e.language = args.language}
         ELSE {e \in emb : e.embedding_model = args.model}

\* the rows removed by the DELETE of lines 78-89
ClearDeleted(emb, args) == ClearSelected(emb, args)

\* str.lower() on the answers that can be typed
Lower(r) == IF r = "Y" THEN "y" ELSE r

Responses == {"y", "Y", "n", ""}

\* the arguments main() lets through (lines 131-138)
ClearArgs ==
    { [model |-> None, language |-> None, clear_all |-> TRUE] } \cup
    { [model |-> m, language |-> l, clear_all |-> FALSE] :
         m \in Models, l \in Languages \cup {None} }

\* lines 29-69: count the matching rows, return when there are none
ClearStart(args) ==
    /\ cl_pc = "idle"
    /\ cl_args' = args
    /\ cl_response' = None
    /\ cl_count_before' = Cardinality(ClearSelected(db_emb, args))
    /\ cl_deleted' = NoInt
    /\ cl_pre_emb' = db_emb
    /\ cl_pre_sections' = db_sections
    /\ cl_pc' = IF Cardinality(ClearSelected(db_emb, args)) = 0
                THEN "done" ELSE "prompt"
    /\ UNCHANGED <<chunkVars, dbEmbVars, embVars, parseVars, tableVars, storeVars, runVars, valVars, connVars, queryVars, assocVars>>

\* lines 71-102: the prompt, the DELETE, the commit and the report
ClearAnswer(response) ==
    /\ cl_pc = "prompt"
    /\ cl_response' = response
    /\ IF Lower(response) # "y"
       THEN UNCHANGED <<db_emb, cl_deleted>>
       ELSE /\ db_emb' = db_emb \ ClearDeleted(db_emb, cl_args)
            /\ cl_deleted' = cl_count_before - Cardinality(db_emb')
    /\ cl_pc' = "done"
    /\ UNCHANGED <<cl_args, cl_count_before, cl_pre_emb, cl_pre_sections>>
    /\ UNCHANGED <<chunkVars, db_sections, db_emb_seq, embVars, parseVars, tableVars, storeVars, runVars, valVars, connVars, queryVars, assocVars>>


----------------------------------------------------------------------------
(* Section Number Resolver: docling_utils.py 88-112, parse_lrm.py 171-180 *)

IsDigit(c) == c \in {"0", "1", "2", "3", "4", "5", "6", "7", "8", "9"}
IsSpace(c) == c \in {" ", "\t", "\n"}

\* str.strip()
RECURSIVE LStrip(_)
LStrip(s) == IF s # <<>> /\ IsSpace(Head(s)) THEN LStrip(Tail(s)) ELSE s

RECURSIVE RStrip(_)
RStrip(s) ==
    IF s # <<>> /\ IsSpace(s[Len(s)]) THEN RStrip(SubSeq(s, 1, Len(s) - 1))
    ELSE s

Strip(s) == RStrip(LStrip(s))

\* the position after the run of digits that starts at position i
RECURSIVE DigitsEnd(_, _)
DigitsEnd(s, i) ==
    IF i <= Len(s) /\ IsDigit(s[i]) THEN DigitsEnd(s, i + 1) ELSE i

\* (?:\.\d+)* matched greedily from position i
RECURSIVE DotGroupsEnd(_, _)
DotGroupsEnd(s, i) ==
    IF i + 1 <= Len(s) /\ s[i] = "." /\ IsDigit(s[i + 1])
    THEN DotGroupsEnd(s, DigitsEnd(s, i + 1))
    ELSE i

\* ^(\d+(?:\.\d+)*)\s+ : the position after group 1, or 0 without a match
MatchNumberLabel(s) ==
    LET e1 == DigitsEnd(s, 1)
        e  == DotGroupsEnd(s, e1)
    IN  IF e1 > 1 /\ e <= Len(s) /\ IsSpace(s[e]) THEN e ELSE 0

\* docling_utils.py 88-112
extract_section_number(text) ==
    LET t == Strip(text)
        e == MatchNumberLabel(t)
    IN  IF e > 0 THEN SubSeq(t, 1, e - 1) ELSE NoText

\* str.count(c)
CountChar(s, c) == Cardinality({i \in DOMAIN s : s[i] = c})

\* str.split(c)
RECURSIVE Split(_, _)
Split(s, c) ==
    IF \E i \in DOMAIN s : s[i] = c
    THEN LET i == CHOOSE k \in DOMAIN s :
                     s[k] = c /\ \A m \in 1..(k - 1) : s[m] # c
         IN  <<SubSeq(s, 1, i - 1)>> \o Split(SubSeq(s, i + 1, Len(s)), c)
    ELSE <<s>>

\* sep.join(parts)
RECURSIVE Join(_, _)
Join(parts, sep) ==
    IF parts = <<>> THEN <<>>
    ELSE IF Len(parts) = 1 THEN parts[1]
    ELSE parts[1] \o sep \o Join(Tail(parts), sep)

\* mutant: the parent is the top-level ancestor, parts[:1]
ParentOfTopLevel(section_num) ==
    IF CountChar(section_num, ".") > 0
    THEN Join(Slice(Split(section_num, "."), 0, 1), <<".">>)
    ELSE NoText

\* parse_lrm.py 173-175 and 248-250: '.'.join(parts[:-1]) if depth > 0
ParentOf(section_num) ==
    LET depth == CountChar(section_num, ".")
        parts == Split(section_num, ".")
    IN  IF depth > 0
        THEN Join(Slice(parts, 0, Len(parts) - 1), <<".">>)
        ELSE NoText

\* str(n) for the list lengths of the model
DigitChar(n) ==
    CASE n = 0 -> "0" [] n = 1 -> "1" [] n = 2 -> "2" [] n = 3 -> "3"
      [] n = 4 -> "4" [] n = 5 -> "5" [] n = 6 -> "6" [] n = 7 -> "7"
      [] n = 8 -> "8" [] OTHER -> "9"

\* mutant: the placeholder does not depend on the number of sections
PlaceholderFixed(n) == <<"unnumbered_", "0">>

\* f"unnumbered_{n}"
Placeholder(n) == <<"unnumbered_", DigitChar(n)>>

----------------------------------------------------------------------------
(* Section Builder: LRMParser.extract_sections, parse_lrm.py 140-212 *)

MaxItems == 5
MaxPage == 2

\* docling_utils.py 67-85 on the labels of the element stream
is_heading(item) == item.label \in {"section_header", "title", "page_header"}

\* mutant: a heading without a page keeps page 0
PageOr1Unknown0(page) == IF page = NoInt THEN 0 ELSE page

\* get_page_number(item) or 1
PageOr1(page) == IF page = NoInt \/ page = 0 THEN 1 ELSE page

\* parse_lrm.py 166-190: the section opened by a heading
NewSection(title, page_no, n_sections) ==
    LET page == PageOr1(page_no)
        found == extract_section_number(title)
    IN  [section_number |-> IF found # NoText THEN found
                            ELSE Placeholder(n_sections),
         parent_section |-> IF found # NoText THEN ParentOf(found) ELSE NoText,
         title |-> title,
         page_start |-> page,
         page_end |-> page,
         depth |-> IF found # NoText THEN CountChar(found, ".") ELSE 0,
         content |-> <<>>]

HeadingTexts ==
    { <<"1", " ", "A">>,
      <<"1", ".", "1", " ", "A">>,
      <<"1", ".", "1", ".", "2", " ", "A">>,
      <<" ", "2", " ", "A">>,
      <<"A">>,
      <<"1", ".", " ", "A">>,
      <<"1", ".", "1">>,
      <<"1", "A">> }

BodyTexts == { <<>>, <<" ">>, <<"x">> }

Items ==
    { [label |-> l, text |-> t, page |-> p] :
        l \in {"section_header"}, t \in HeadingTexts,
        p \in {NoInt} \cup 1..MaxPage } \cup
    { [label |-> l, text |-> t, page |-> p] :
        l \in {"text"}, t \in BodyTexts, p \in {NoInt} \cup 1..(MaxPage + 1) } \cup
    { [label |-> "title", text |-> <<"A">>, page |-> 1],
      [label |-> "page_header", text |-> <<"A">>, page |-> 2],
      [label |-> "text", text |-> <<"y">>, page |-> NoInt] }

\* history of one section: the page of its heading (1 when it has none), the
\* largest of that page and the known pages of the body elements that
\* followed the heading, and the non-blank texts of those elements
NoHist == [page |-> 0, body_page |-> 0, body |-> <<>>]

ParseInit ==
    /\ ex_pc = "idle"
    /\ ex_n = 0
    /\ ex_sections = <<>>
    /\ ex_current = NoSection
    /\ fb_heap = <<>>
    /\ fb_sections = <<>>
    /\ fb_current = 0
    /\ fb_content_lines = <<>>
    /\ ex_result = <<>>
    /\ ex_hist = <<>>
    /\ ex_cur_hist = NoHist

\* parse_lrm.py 144-158: doc.texts is available, the native path is taken
NativeStart ==
    /\ ex_pc = "idle"
    /\ ex_pc' = "native"
    /\ UNCHANGED <<ex_n, ex_sections, ex_current, fb_heap, fb_sections,
                   fb_current, fb_content_lines, ex_result>>
    /\ UNCHANGED <<ex_hist, ex_cur_hist>>
    /\ UNCHANGED <<chunkVars, dbEmbVars, embVars, clearVars, tableVars, storeVars, runVars, valVars, connVars, queryVars, assocVars>>

\* mutant: the flushed section is put in front of the list
FlushedInFront(sections, current) ==
    IF current # NoSection /\ current.content # <<>>
    THEN <<current>> \o sections
    ELSE sections

\* the flush of lines 163-164 and 204-205
Flushed(sections, current) ==
    IF current # NoSection /\ current.content # <<>>
    THEN Append(sections, current)
    ELSE sections

\* history: the flush of lines 163-164 and 204-205 emits current_section
FlushedHist ==
    IF Len(Flushed(ex_sections, ex_current)) > Len(ex_sections)
    THEN Append(ex_hist, ex_cur_hist)
    ELSE ex_hist

\* parse_lrm.py 160-201: one iteration of the loop over doc.texts
NativeItem(item) ==
    /\ ex_pc = "native"
    /\ ex_n < MaxItems
    /\ ex_n' = ex_n + 1
    /\ IF is_heading(item)
       THEN /\ ex_sections' = Flushed(ex_sections, ex_current)
            /\ ex_current' = NewSection(item.text, item.page,
                                        Len(Flushed(ex_sections, ex_current)))
            /\ ex_hist' = FlushedHist
            /\ ex_cur_hist' =
                 [page |-> IF item.page = NoInt THEN 1 ELSE item.page,
                  body_page |-> IF item.page = NoInt THEN 1 ELSE item.page,
                  body |-> <<>>]
       ELSE IF ex_current # NoSection
       THEN /\ ex_current' =
                 [ex_current EXCEPT
                    !.content = IF Strip(item.text) # <<>>
                                THEN Append(@, item.text) ELSE @,
                    !.page_end = IF item.page # NoInt /\ item.page # 0
                                    /\ item.page > @
                                 THEN item.page ELSE @]
            /\ ex_cur_hist' =
                 [ex_cur_hist EXCEPT
                    !.body = IF \E k \in DOMAIN item.text :
                                    ~IsSpace(item.text[k])
                             THEN Append(@, item.text) ELSE @,
                    !.body_page = IF item.page # NoInt THEN Max(@, item.page)
                                  ELSE @]
            /\ UNCHANGED <<ex_sections, ex_hist>>
       ELSE UNCHANGED <<ex_sections, ex_current, ex_hist, ex_cur_hist>>
    /\ UNCHANGED <<ex_pc, fb_heap, fb_sections, fb_current, fb_content_lines,
                   ex_result>>
    /\ UNCHANGED <<chunkVars, dbEmbVars, embVars, clearVars, tableVars, storeVars, runVars, valVars, connVars, queryVars, assocVars>>

\* parse_lrm.py 203-212: the last flush, the content lists are joined
NativeEnd ==
    /\ ex_pc = "native"
    /\ LET sections == Flushed(ex_sections, ex_current)
       IN  /\ ex_sections' = sections
           /\ ex_result' =
                [i \in 1..Len(sections) |->
                    [sections[i] EXCEPT
                        !.content = Join(@, <<"\n", "\n">>)]]
    /\ ex_pc' = "done"
    /\ UNCHANGED <<ex_n, ex_current, fb_heap, fb_sections, fb_current,
                   fb_content_lines>>
    /\ ex_hist' = FlushedHist
    /\ UNCHANGED ex_cur_hist
    /\ UNCHANGED <<chunkVars, dbEmbVars, embVars, clearVars, tableVars, storeVars, runVars, valVars, connVars, queryVars, assocVars>>

----------------------------------------------------------------------------
(* Fallback extractor: LRMParser._extract_sections_from_markdown, 214-269 *)

MaxLines == 5

\* the number of leading '#' characters
RECURSIVE HashesEnd(_, _)
HashesEnd(s, i) ==
    IF i <= Len(s) /\ s[i] = "#" THEN HashesEnd(s, i + 1) ELSE i

\* the position after the run of whitespace that starts at position i
RECURSIVE SpacesEnd(_, _)
SpacesEnd(s, i) ==
    IF i <= Len(s) /\ IsSpace(s[i]) THEN SpacesEnd(s, i + 1) ELSE i

\* heading_pattern ^(#{1,6})\s+(.+)$ : group 2, or NoText without a match
HeadingGroup2(line) ==
    LET h == HashesEnd(line, 1)
        w == SpacesEnd(line, h)
    IN  IF h - 1 \in 1..6 /\ w > h
        THEN IF w <= Len(line) THEN SubSeq(line, w, Len(line))
             ELSE IF w - h >= 2 THEN <<line[Len(line)]>>
             ELSE NoText
        ELSE NoText

\* parse_lrm.py 245-261: the dict created for a numbered heading
FallbackSection(heading_text, i) ==
    LET e == MatchNumberLabel(heading_text)
        section_number == SubSeq(heading_text, 1, e - 1)
        page == Max(1, i \div 50)
    IN  [section_number |-> section_number,
         parent_section |-> ParentOf(section_number),
         title |-> Strip(SubSeq(heading_text, SpacesEnd(heading_text, e),
                                Len(heading_text))),
         depth |-> CountChar(section_number, "."),
         page_start |-> page,
         page_end |-> page,
         content |-> <<>>]

MarkdownLines ==
    { <<"#", " ", "1", " ", "A">>,
      <<"#", "#", " ", "1", ".", "1", " ", "A">>,
      <<"#", "#", "#", " ", "1", ".", "1", ".", "2", " ", "A">>,
      <<"#", " ", "A">>,
      <<"#", " ", " ">>,
      <<"#", "1", " ", "A">>,
      <<"x">>,
      <<>> }

\* parse_lrm.py 144-146 and 219-231: doc.texts is missing; export_to_markdown
\* either raises (the extractor returns []) or yields the lines
FallbackStart(export_ok) ==
    /\ ex_pc = "idle"
    /\ ex_pc' = IF export_ok THEN "fallback" ELSE "done"
    /\ UNCHANGED <<ex_n, ex_sections, ex_current, fb_heap, fb_sections,
                   fb_current, fb_content_lines, ex_result>>
    /\ UNCHANGED <<ex_hist, ex_cur_hist>>
    /\ UNCHANGED <<chunkVars, dbEmbVars, embVars, clearVars, tableVars, storeVars, runVars, valVars, connVars, queryVars, assocVars>>

\* lines 237-240 and 265-267: the current dict gets its content and is
\* appended to sections
FbClosedHeap == [fb_heap EXCEPT ![fb_current].content =
                    Strip(Join(fb_content_lines, <<"\n">>))]

\* parse_lrm.py 233-263: one iteration of the loop over the lines
FallbackLine(line) ==
    /\ ex_pc = "fallback"
    /\ ex_n < MaxLines
    /\ ex_n' = ex_n + 1
    /\ LET heading_text == IF HeadingGroup2(line) = NoText THEN NoText
                           ELSE Strip(HeadingGroup2(line))
           closes == fb_current # 0
           heap1 == IF closes THEN FbClosedHeap ELSE fb_heap
       IN  IF heading_text # NoText
           THEN /\ fb_sections' = IF closes THEN Append(fb_sections, fb_current)
                                  ELSE fb_sections
                /\ fb_content_lines' = IF closes THEN <<>> ELSE fb_content_lines
                /\ IF MatchNumberLabel(heading_text) > 0
                   THEN /\ fb_heap' = Append(heap1,
                                             FallbackSection(heading_text, ex_n))
                        /\ fb_current' = Len(heap1) + 1
                   ELSE /\ fb_heap' = heap1
                        /\ fb_current' = fb_current
           ELSE /\ fb_content_lines' = IF fb_current # 0
                                       THEN Append(fb_content_lines, line)
                                       ELSE fb_content_lines
                /\ UNCHANGED <<fb_heap, fb_sections, fb_current>>
    /\ UNCHANGED <<ex_pc, ex_sections, ex_current, ex_result>>
    /\ UNCHANGED <<ex_hist, ex_cur_hist>>
    /\ UNCHANGED <<chunkVars, dbEmbVars, embVars, clearVars, tableVars, storeVars, runVars, valVars, connVars, queryVars, assocVars>>

\* parse_lrm.py 265-269
FallbackEnd ==
    /\ ex_pc = "fallback"
    /\ LET heap1 == IF fb_current # 0 THEN FbClosedHeap ELSE fb_heap
           list1 == IF fb_current # 0 THEN Append(fb_sections, fb_current)
                    ELSE fb_sections
       IN  /\ fb_heap' = heap1
           /\ fb_sections' = list1
           /\ ex_result' = [k \in 1..Len(list1) |-> heap1[list1[k]]]
    /\ ex_pc' = "done"
    /\ UNCHANGED <<ex_n, ex_sections, ex_current, fb_current, fb_content_lines>>
    /\ UNCHANGED <<ex_hist, ex_cur_hist>>
    /\ UNCHANGED <<chunkVars, dbEmbVars, embVars, clearVars, tableVars, storeVars, runVars, valVars, connVars, queryVars, assocVars>>

----------------------------------------------------------------------------
(* Content Associator and Table Deduplicator: parse_lrm.py 296-306, 322-385 *)

MaxTables == 3
MaxAssocSections == 2

\* parse_lrm.py 297-306 and 343-350: the section number an artifact of the
\* given page is mapped to, NoText when there is no section
RECURSIVE FirstContaining(_, _, _)
FirstContaining(sections, page, i) ==
    IF i > Len(sections) THEN NoText
    ELSE IF sections[i].page_start <= page /\ page <= sections[i].page_end
         THEN sections[i].section_number
         ELSE FirstContaining(sections, page, i + 1)

\* mutant: no tail fallback, an artifact of a page outside every section
\* is dropped
AssignSectionNoFallback(sections, page) == FirstContaining(sections, page, 1)

AssignSection(sections, page) ==
    LET found == FirstContaining(sections, page, 1)
    IN  IF found = NoText /\ sections # <<>>
        THEN sections[Len(sections)].section_number
        ELSE found

\* hashlib.md5(table_md.encode('utf-8')).hexdigest()
Md5(table_md) == <<"md5">> \o table_md

\* dict[key].append(item), the key inserted at the end when it is new
DictAppend(dict, key, item) ==
    IF \E i \in DOMAIN dict : dict[i].key = key
    THEN [i \in DOMAIN dict |->
            IF dict[i].key = key
            THEN [dict[i] EXCEPT !.items = Append(@, item)]
            ELSE dict[i]]
    ELSE Append(dict, [key |-> key, items |-> <<item>>])

\* mutant: the set of seen hashes is kept per section
SeenKeyPerSection(section_num, table_md) == section_num \o Md5(table_md)

\* parse_lrm.py 358-361: the member of seen_table_hashes a table stands for
SeenKey(section_num, table_md) == Md5(table_md)

\* parse_lrm.py 335-378: the loop over doc.tables
RECURSIVE TablesLoop(_, _, _, _)
TablesLoop(sections, docling_tables, i, acc) ==
    IF i > Len(docling_tables) THEN acc
    ELSE
      LET table_obj == docling_tables[i]
          page == PageOr1(table_obj.page)
          section_num == AssignSection(sections, page)
          table_md == table_obj.markdown
          key == SeenKey(section_num, table_md)
      IN  IF section_num = NoText \/ table_md = <<>>
          THEN TablesLoop(sections, docling_tables, i + 1, acc)
          ELSE IF key \notin acc.seen_table_hashes
          THEN TablesLoop(sections, docling_tables, i + 1,
                 [acc EXCEPT
                    !.seen_table_hashes = @ \cup {key},
                    !.tables_by_section =
                        DictAppend(@, section_num,
                                   [caption |-> table_obj.caption,
                                    markdown |-> table_md])])
          ELSE TablesLoop(sections, docling_tables, i + 1,
                 [acc EXCEPT !.duplicates_skipped = @ + 1])

\* mutant: the hashes of the tables already in the store count as seen
extract_tables_seen_stored(sections, docling_tables) ==
    TablesLoop(sections, docling_tables, 1,
               [tables_by_section |-> <<>>,
                seen_table_hashes |->
                    IF docling_tables = <<>> THEN {}
                    ELSE { Md5(r.markdown) : r \in db_tables },
                duplicates_skipped |-> 0])

\* parse_lrm.py 322-385
extract_tables(sections, docling_tables) ==
    TablesLoop(sections, docling_tables, 1,
               [tables_by_section |-> <<>>, seen_table_hashes |-> {},
                duplicates_skipped |-> 0])

\* the page range and number of a section, as the associator reads them
AssocSections ==
    { [section_number |-> n, page_start |-> r[1], page_end |-> r[2]] :
        n \in { <<"1">>, <<"2">> },
        r \in { <<1, 1>>, <<1, 2>>, <<2, 2>>, <<3, 3>> } }

\* a table object: its page, its markdown rendering ("" when the export
\* fails or is empty) and its caption
TableObjects ==
    { [page |-> p, markdown |-> m, caption |-> NoText] :
        p \in {NoInt, 2, 3}, m \in { <<>>, <<"X">>, <<"Y">> } }

TablesInit ==
    /\ tb_pc = "idle"
    /\ tb_sections = <<>>
    /\ tb_tables = <<>>
    /\ tb_result = extract_tables(<<>>, <<>>)

\* run 527-534: extract_tables is called with the extracted sections
TablesCall ==
    /\ tb_pc = "idle"
    /\ \E ss \in SeqsUpTo(AssocSections, MaxAssocSections),
          ts \in SeqsUpTo(TableObjects, MaxTables) :
            /\ tb_sections' = ss
            /\ tb_tables' = ts
    /\ tb_pc' = "called"
    /\ UNCHANGED tb_result
    /\ UNCHANGED <<chunkVars, dbEmbVars, embVars, clearVars, parseVars, storeVars, runVars, valVars, connVars, queryVars, assocVars>>

TablesReturn ==
    /\ tb_pc = "called"
    /\ tb_result' = extract_tables(tb_sections, tb_tables)
    /\ tb_pc' = "returned"
    /\ UNCHANGED <<tb_sections, tb_tables>>
    /\ UNCHANGED <<chunkVars, dbEmbVars, embVars, clearVars, parseVars, storeVars, runVars, valVars, connVars, queryVars, assocVars>>

----------------------------------------------------------------------------
(* Ingestion run: LRMParser.run 512-557, store_in_database 399-502,        *)
(* extract_code_examples 271-320                                           *)

MaxRuns == 3

\* the four tables written by the parser and their AUTOINCREMENT counters
DbState ==
    [sections |-> db_sections, code |-> db_code, tables |-> db_tables,
     meta |-> db_meta, seq |-> db_seq, emb |-> db_emb]

EmptyDb ==
    [sections |-> {}, code |-> {}, tables |-> {}, meta |-> {},
     seq |-> [sections |-> 0, code |-> 0, tables |-> 0, meta |-> 0],
     emb |-> {}]

SetDb(d) ==
    /\ db_sections' = d.sections
    /\ db_code' = d.code
    /\ db_tables' = d.tables
    /\ db_meta' = d.meta
    /\ db_seq' = d.seq

\* the store of a freshly created schema
StoreDbInit ==
    /\ db_code = {}
    /\ db_tables = {}
    /\ db_meta = {}
    /\ db_seq = [sections |-> 0, code |-> 0, tables |-> 0, meta |-> 0]

NoTx == [active |-> FALSE, saved |-> EmptyDb]

ZeroStats == [sections |-> 0, code_examples |-> 0, tables |-> 0]

NoDoc == [sections |-> <<>>, code_blocks |-> <<>>, tables |-> <<>>]

RunInit ==
    /\ rp_pc = "idle"
    /\ rp_language = None
    /\ rp_doc = NoDoc
    /\ rp_code_by_section = <<>>
    /\ rp_tables_by_section = <<>>
    /\ rp_section_ids = <<>>
    /\ rp_k = 0
    /\ rp_stats = ZeroStats
    /\ rp_tx = NoTx
    /\ rp_pre = EmptyDb
    /\ rp_fault = FALSE
    /\ rp_exit = NoInt
    /\ rp_runs = 0

\* parse_lrm.py 287-315: the loop over the fenced code blocks of the markdown
RECURSIVE CodeLoop(_, _, _, _)
CodeLoop(sections, code_blocks, i, acc) ==
    IF i > Len(code_blocks) THEN acc
    ELSE
      LET block == code_blocks[i]
          code == Strip(block.code)
          estimated_page == Max(1, block.line_num \div 50)
          section_num == AssignSection(sections, estimated_page)
      IN  IF Len(code) < 10 \/ section_num = NoText
          THEN CodeLoop(sections, code_blocks, i + 1, acc)
          ELSE CodeLoop(sections, code_blocks, i + 1,
                 DictAppend(acc, section_num,
                            [code |-> code, description |-> block.lang,
                             line_start |-> block.line_num]))

\* parse_lrm.py 271-320
extract_code_examples(code_blocks, sections) ==
    CodeLoop(sections, code_blocks, 1, <<>>)

\* the (key, item) pairs in the order the nested loops over dict.items()
\* visit them: 438-443 and 457-462
RECURSIVE Flatten(_, _)
Flatten(dict, i) ==
    IF i > Len(dict) THEN <<>>
    ELSE [j \in 1..Len(dict[i].items) |->
            [key |-> dict[i].key, item |-> dict[i].items[j]]]
         \o Flatten(dict, i + 1)

\* section_ids[key] = val (434)
DictSet(dict, key, val) ==
    IF \E i \in DOMAIN dict : dict[i].key = key
    THEN [i \in DOMAIN dict |->
            IF dict[i].key = key THEN [dict[i] EXCEPT !.val = val]
            ELSE dict[i]]
    ELSE Append(dict, [key |-> key, val |-> val])

\* section_ids.get(key) (439, 458)
DictGet(dict, key) ==
    IF \E i \in DOMAIN dict : dict[i].key = key
    THEN (CHOOSE e \in Range(dict) : e.key = key).val
    ELSE NoInt

\* mutant: DELETE FROM sections without the WHERE clause
PurgeRowsAll(rows, language) == {}

\* 412: DELETE FROM sections WHERE language = ?
PurgeRows(rows, language) == { r \in rows : r.language # language }

\* mutant: the connection is in autocommit mode, no transaction is opened
BeginTxAutocommit(tx, db) == tx

\* sqlite3.connect (403) leaves the connection in the default isolation
\* level: the first DELETE or INSERT opens a transaction
BeginTx(tx, db) == IF tx.active THEN tx ELSE [active |-> TRUE, saved |-> db]

\* 498: self.db.rollback()
Rollback(tx, db) == IF tx.active THEN tx.saved ELSE db

\* mutant: the sections table has no UNIQUE constraint
UniqueViolationNever(rows, language, section_number) == FALSE

\* UNIQUE(language, section_number) of the sections table
UniqueViolation(rows, language, section_number) ==
    \E r \in rows : r.language = language /\ r.section_number = section_number

\* mutant: the connection of the parser enforces foreign keys
ForeignKeysOn == TRUE

\* 403: the connection is opened and no PRAGMA foreign_keys is issued, so
\* no ON DELETE CASCADE of a table that references sections is enforced
ForeignKeys == FALSE

\* the rows of a child table left by DELETE FROM sections
CascadeRows(children, deleted_ids) ==
    IF ForeignKeys
    THEN { c \in children : c.section_id \notin deleted_ids }
    ELSE children

\* the extracted section lists of the documents ingested
DocSection(title, content, page_start, page_end) ==
    [NewSection(title, page_start, 0) EXCEPT
        !.content = content, !.page_end = page_end]

S1 == DocSection(<<"1", " ", "A">>, <<"x">>, 1, 1)

S1b == DocSection(<<"1", " ", "B">>, <<"y">>, 2, 2)

S11 == DocSection(<<"1", ".", "1", " ", "A">>, <<"z">>, 1, 2)

DocSectionLists == { <<>>, <<S1>>, <<S1b>>, <<S1, S11>>, <<S1, S1b>> }

LongCode == <<"m", "o", "d", "u", "l", "e", " ", "t", ";", "e">>

\* the artifacts of a document: none, or one fenced code block at the top
\* of the markdown and two tables, one without page and one of page 2
DocArtifacts ==
    { [code_blocks |-> <<>>, tables |-> <<>>],
      [code_blocks |-> <<[code |-> LongCode, lang |-> None, line_num |-> 0]>>,
       tables |-> <<[page |-> NoInt, markdown |-> <<"X">>, caption |-> NoText],
                    [page |-> 2, markdown |-> <<"Y">>, caption |-> NoText]>>] }

Docs ==
    { [sections |-> s, code_blocks |-> a.code_blocks, tables |-> a.tables] :
        s \in DocSectionLists, a \in DocArtifacts }

\* run 512-534: conversion and the three extractions, up to the call of
\* store_in_database
RunStart(language, doc) ==
    /\ rp_pc = "idle"
    /\ rp_runs < MaxRuns
    /\ rp_pc' = "purge"
    /\ rp_language' = language
    /\ rp_doc' = doc
    /\ rp_code_by_section' = extract_code_examples(doc.code_blocks, doc.sections)
    /\ rp_tables_by_section' =
           extract_tables(doc.sections, doc.tables).tables_by_section
    /\ rp_section_ids' = <<>>
    /\ rp_k' = 0
    /\ rp_stats' = ZeroStats
    /\ rp_tx' = NoTx
    /\ rp_pre' = DbState
    /\ rp_fault' = FALSE
    /\ rp_exit' = NoInt
    /\ rp_runs' = rp_runs + 1
    /\ UNCHANGED <<db_sections, storeVars>>
    /\ UNCHANGED <<chunkVars, db_emb, db_emb_seq, embVars, clearVars, parseVars, tableVars, valVars, connVars, queryVars, assocVars>>

\* 407-414: the purge of the language's earlier sections
StorePurge ==
    /\ rp_pc = "purge"
    /\ LET existing == { r \in db_sections : r.language = rp_language }
           deleted_ids == { r.id : r \in existing }
       IN  IF existing # {}
           THEN /\ db_sections' = PurgeRows(db_sections, rp_language)
                /\ db_code' = CascadeRows(db_code, deleted_ids)
                /\ db_tables' = CascadeRows(db_tables, deleted_ids)
                /\ db_emb' = CascadeRows(db_emb, deleted_ids)
                /\ rp_tx' = BeginTx(rp_tx, DbState)
           ELSE UNCHANGED <<db_sections, db_code, db_tables, db_emb, rp_tx>>
    /\ rp_pc' = "sections"
    /\ rp_k' = 0
    /\ UNCHANGED <<db_meta, db_seq>>
    /\ UNCHANGED <<rp_language, rp_doc, rp_code_by_section,
                   rp_tables_by_section, rp_section_ids, rp_stats, rp_pre,
                   rp_fault, rp_exit, rp_runs>>
    /\ UNCHANGED <<chunkVars, db_emb_seq, embVars, clearVars, parseVars, tableVars, valVars, connVars, queryVars, assocVars>>

\* 497-499 and run 553-557: rollback, RuntimeError, sys.exit(1)
StoreFails(fault) ==
    /\ SetDb(Rollback(rp_tx, DbState))
    /\ rp_tx' = NoTx
    /\ rp_pc' = "failed"
    /\ rp_exit' = 1
    /\ rp_fault' = fault
    /\ UNCHANGED <<rp_language, rp_doc, rp_code_by_section,
                   rp_tables_by_section, rp_section_ids, rp_k, rp_stats,
                   rp_pre, rp_runs>>

\* 419-435: one iteration of the loop over sections
StoreSection ==
    /\ rp_pc = "sections"
    /\ rp_k < Len(rp_doc.sections)
    /\ LET section == rp_doc.sections[rp_k + 1]
           id == db_seq.sections + 1
       IN  IF UniqueViolation(db_sections, rp_language, section.section_number)
           THEN StoreFails(FALSE)
           ELSE /\ db_sections' = db_sections \cup
                     { SectionRow(id, rp_language, section.section_number,
                                  section.parent_section, section.title,
                                  section.content, section.page_start,
                                  section.page_end, section.depth) }
                /\ db_seq' = [db_seq EXCEPT !.sections = id]
                /\ rp_tx' = BeginTx(rp_tx, DbState)
                /\ rp_section_ids' =
                       DictSet(rp_section_ids, section.section_number, id)
                /\ rp_stats' = [rp_stats EXCEPT !.sections = @ + 1]
                /\ rp_k' = rp_k + 1
                /\ UNCHANGED <<db_code, db_tables, db_meta>>
                /\ UNCHANGED <<rp_pc, rp_language, rp_doc, rp_code_by_section,
                               rp_tables_by_section, rp_pre, rp_fault,
                               rp_exit, rp_runs>>
    /\ UNCHANGED <<chunkVars, db_emb, db_emb_seq, embVars, clearVars, parseVars, tableVars, valVars, connVars, queryVars, assocVars>>

\* the number of iterations of the loop of a stage
StageLen(stage) ==
    IF stage = "sections" THEN Len(rp_doc.sections)
    ELSE IF stage = "code" THEN Len(Flatten(rp_code_by_section, 1))
    ELSE Len(Flatten(rp_tables_by_section, 1))

\* 419, 438, 457: a loop is exhausted and the next stage begins
StoreNextStage ==
    /\ rp_pc \in {"sections", "code", "tables"}
    /\ rp_k = StageLen(rp_pc)
    /\ rp_pc' = (IF rp_pc = "sections" THEN "code"
                 ELSE IF rp_pc = "code" THEN "tables" ELSE "meta")
    /\ rp_k' = 0
    /\ UNCHANGED <<db_sections, storeVars>>
    /\ UNCHANGED <<rp_language, rp_doc, rp_code_by_section,
                   rp_tables_by_section, rp_section_ids, rp_stats, rp_tx,
                   rp_pre, rp_fault, rp_exit, rp_runs>>
    /\ UNCHANGED <<chunkVars, db_emb, db_emb_seq, embVars, clearVars, parseVars, tableVars, valVars, connVars, queryVars, assocVars>>

\* 438-454: one code example of code_by_section
StoreCode ==
    /\ rp_pc = "code"
    /\ rp_k < Len(Flatten(rp_code_by_section, 1))
    /\ LET entry == Flatten(rp_code_by_section, 1)[rp_k + 1]
           section_id == DictGet(rp_section_ids, entry.key)
           id == db_seq.code + 1
       IN  IF section_id = NoInt
           THEN UNCHANGED <<db_code, db_seq, rp_tx, rp_stats>>
           ELSE /\ db_code' = db_code \cup
                     { [id |-> id, section_id |-> section_id,
                        language |-> rp_language, code |-> entry.item.code,
                        description |-> entry.item.description,
                        line_start |-> entry.item.line_start] }
                /\ db_seq' = [db_seq EXCEPT !.code = id]
                /\ rp_tx' = BeginTx(rp_tx, DbState)
                /\ rp_stats' = [rp_stats EXCEPT !.code_examples = @ + 1]
    /\ rp_k' = rp_k + 1
    /\ UNCHANGED <<db_sections, db_tables, db_meta>>
    /\ UNCHANGED <<rp_pc, rp_language, rp_doc, rp_code_by_section,
                   rp_tables_by_section, rp_section_ids, rp_pre, rp_fault,
                   rp_exit, rp_runs>>
    /\ UNCHANGED <<chunkVars, db_emb, db_emb_seq, embVars, clearVars, parseVars, tableVars, valVars, connVars, queryVars, assocVars>>

\* 457-473: one table of tables_by_section
StoreTable ==
    /\ rp_pc = "tables"
    /\ rp_k < Len(Flatten(rp_tables_by_section, 1))
    /\ LET entry == Flatten(rp_tables_by_section, 1)[rp_k + 1]
           section_id == DictGet(rp_section_ids, entry.key)
           id == db_seq.tables + 1
       IN  IF section_id = NoInt
           THEN UNCHANGED <<db_tables, db_seq, rp_tx, rp_stats>>
           ELSE /\ db_tables' = db_tables \cup
                     { [id |-> id, section_id |-> section_id,
                        language |-> rp_language,
                        caption |-> entry.item.caption,
                        markdown |-> entry.item.markdown] }
                /\ db_seq' = [db_seq EXCEPT !.tables = id]
                /\ rp_tx' = BeginTx(rp_tx, DbState)
                /\ rp_stats' = [rp_stats EXCEPT !.tables = @ + 1]
    /\ rp_k' = rp_k + 1
    /\ UNCHANGED <<db_sections, db_code, db_meta>>
    /\ UNCHANGED <<rp_pc, rp_language, rp_doc, rp_code_by_section,
                   rp_tables_by_section, rp_section_ids, rp_pre, rp_fault,
                   rp_exit, rp_runs>>
    /\ UNCHANGED <<chunkVars, db_emb, db_emb_seq, embVars, clearVars, parseVars, tableVars, valVars, connVars, queryVars, assocVars>>

\* 476-495 and run 536-551: the parse_metadata row, the commit, the summary
StoreMetadata ==
    /\ rp_pc = "meta"
    /\ db_meta' = db_meta \cup
         { [id |-> db_seq.meta + 1, language |-> rp_language,
            section_count |-> rp_stats.sections,
            code_count |-> rp_stats.code_examples,
            table_count |-> rp_stats.tables] }
    /\ db_seq' = [db_seq EXCEPT !.meta = @ + 1]
    /\ rp_tx' = NoTx
    /\ rp_pc' = "committed"
    /\ rp_exit' = 0
    /\ UNCHANGED <<db_sections, db_code, db_tables>>
    /\ UNCHANGED <<rp_language, rp_doc, rp_code_by_section,
                   rp_tables_by_section, rp_section_ids, rp_k, rp_stats,
                   rp_pre, rp_fault, rp_runs>>
    /\ UNCHANGED <<chunkVars, db_emb, db_emb_seq, embVars, clearVars, parseVars, tableVars, valVars, connVars, queryVars, assocVars>>

\* 406-499: a statement of the try block raises (disk full, store locked,
\* unreadable PDF for the hash of 476)
StoreWriteFails ==
    /\ rp_pc \in {"purge", "sections", "code", "tables", "meta"}
    /\ StoreFails(TRUE)
    /\ UNCHANGED <<chunkVars, db_emb, db_emb_seq, embVars, clearVars, parseVars, tableVars, valVars, connVars, queryVars, assocVars>>

\* the process of the run has ended; the next invocation is a new LRMParser
RunExit ==
    /\ rp_pc \in {"committed", "failed"}
    /\ rp_pc' = "idle"
    /\ rp_language' = None
    /\ rp_doc' = NoDoc
    /\ rp_code_by_section' = <<>>
    /\ rp_tables_by_section' = <<>>
    /\ rp_section_ids' = <<>>
    /\ rp_k' = 0
    /\ rp_stats' = ZeroStats
    /\ rp_pre' = EmptyDb
    /\ rp_fault' = FALSE
    /\ UNCHANGED <<rp_tx, rp_exit, rp_runs>>
    /\ UNCHANGED <<db_sections, storeVars>>
    /\ UNCHANGED <<chunkVars, db_emb, db_emb_seq, embVars, clearVars, parseVars, tableVars, valVars, connVars, queryVars, assocVars>>

----------------------------------------------------------------------------
(* Validator: scripts/validate_extraction.py                               *)

MaxStoreRows == 3

\* the rows selected by the optional "WHERE language = ?" (78-80, 122-124)
Scope(rows, language) ==
    IF language # None THEN { r \in rows : r.language = language } ELSE rows

\* one entry of self.issues[...]; id tells apart the entries that the
\* same message is appended for
Issue(check, id, section_number, count) ==
    [check |-> check, id |-> id, section_number |-> section_number,
     count |-> count]

NoIssues == [critical |-> {}, warning |-> {}, info |-> {}]

\* 102-103: '.'.join(section_num.split('.')[:-1])
expected_parent(section_num) ==
    LET parts == Split(section_num, ".")
    IN  Join(Slice(parts, 0, Len(parts) - 1), <<".">>)

\* 72-114
check_section_hierarchy(rows, language, issues) ==
    LET sections == Scope(rows, language)
    IN  [issues EXCEPT
          !.warning = @ \cup
              { Issue("depth_mismatch", r.id, r.section_number, 0) :
                  r \in { q \in sections :
                            q.depth # CountChar(q.section_number, ".") } }
              \cup
              { Issue("top_level_parent", r.id, r.section_number, 0) :
                  r \in { q \in sections :
                            q.depth <= 0 /\ q.parent_section # NoText } },
          !.critical = @ \cup
              { Issue("parent_mismatch", r.id, r.section_number, 0) :
                  r \in { q \in sections :
                            /\ q.depth > 0
                            /\ q.parent_section
                                 # expected_parent(q.section_number) } }]

\* 120-128: GROUP BY section_number HAVING count > 1, as (number, count)
DuplicateGroups(rows, language) ==
    LET sections == Scope(rows, language)
        CountOf(n) == Cardinality({ r \in sections : r.section_number = n })
    IN  { <<n, CountOf(n)>> :
            n \in { m \in { r.section_number : r \in sections } :
                      CountOf(m) > 1 } }

\* 116-134
check_duplicates(rows, language, issues) ==
    [issues EXCEPT
       !.critical = @ \cup
           { Issue("duplicate", NoInt, g[1], g[2]) :
               g \in DuplicateGroups(rows, language) }]

\* ORDER BY page_start (148), rows of equal page_start in rowid order
RECURSIVE OrderByPage(_)
OrderByPage(S) ==
    IF S = {} THEN <<>>
    ELSE LET first == CHOOSE r \in S :
                        \A q \in S \ {r} :
                            \/ r.page_start < q.page_start
                            \/ (r.page_start = q.page_start /\ r.id < q.id)
         IN  <<first>> \o OrderByPage(S \ {first})

\* 136-177
check_page_numbers(rows, language, issues) ==
    LET sections == OrderByPage(Scope(rows, language))
    IN  [issues EXCEPT
          !.critical = @ \cup
              { Issue("page_range", r.id, r.section_number, 0) :
                  r \in { q \in Range(sections) :
                            q.page_start > q.page_end } }
              \cup
              { Issue("page_start", r.id, r.section_number, 0) :
                  r \in { q \in Range(sections) : q.page_start <= 0 } },
          !.warning = @ \cup
              { Issue("page_gap", sections[i].id,
                      sections[i].section_number,
                      sections[i + 1].page_start - sections[i].page_end) :
                  i \in { k \in 1..(Len(sections) - 1) :
                            sections[k + 1].page_start
                              - sections[k].page_end > 50 } }]

\* 198-205: SELECT COUNT(*) FROM sections WHERE section_number = ?
\* [AND language = ?]
ParentCount(rows, language, parent) ==
    Cardinality({ r \in Scope(rows, language) : r.section_number = parent })

\* 179-211
check_parent_references(rows, language, issues) ==
    [issues EXCEPT
       !.warning = @ \cup
           { Issue("orphaned", r.id, r.section_number, 0) :
               r \in { q \in Scope(rows, language) :
                         /\ q.parent_section # NoText
                         /\ ParentCount(rows, language, q.parent_section)
                              = 0 } }]

\* mutant: the count ignores the language option
OrphanedCountAnyLanguage(children, rows, language) ==
    Cardinality({ c \in children : \A r \in rows : r.id # c.section_id })

\* 218-229, 241-252: children LEFT JOIN sections ON section_id = id
\* WHERE s.id IS NULL [AND child.language = ?]
OrphanedCount(children, rows, language) ==
    Cardinality({ c \in Scope(children, language) :
                    \A r \in rows : r.id # c.section_id })

\* 213-234
check_code_associations(code, rows, language, issues) ==
    LET orphaned_code == OrphanedCount(code, rows, language)
    IN  IF orphaned_code > 0
        THEN [issues EXCEPT
                !.critical = @ \cup
                    {Issue("orphaned_code", NoInt, NoText, orphaned_code)}]
        ELSE issues

\* 236-257
check_table_associations(tables, rows, language, issues) ==
    LET orphaned_tables == OrphanedCount(tables, rows, language)
    IN  IF orphaned_tables > 0
        THEN [issues EXCEPT
                !.critical = @ \cup
                    {Issue("orphaned_tables", NoInt, NoText, orphaned_tables)}]
        ELSE issues

\* 259-307: the counts of the report
collect_statistics(rows, code, tables, language) ==
    [total_sections |-> Cardinality(Scope(rows, language)),
     total_code |-> Cardinality(Scope(code, language)),
     total_tables |-> Cardinality(Scope(tables, language))]

NoStats == [total_sections |-> 0, total_code |-> 0, total_tables |-> 0]

\* 361-370: the value print_report returns
print_report(issues) == IF issues.critical # {} THEN 1 ELSE 0

\* the stored sections a validated store is made of: every combination of
\* language, number, stored depth and stored parent, and two sections of
\* invalid pages
ValNumbers == { <<"1">>, <<"1", ".", "1">>, <<"2">> }

ValParents == { NoText, <<"1">> }

ValRowId(l, n, d, p) ==
    (IF l = "verilog" THEN 0 ELSE 12)
    + (IF n = <<"1">> THEN 0 ELSE IF n = <<"2">> THEN 4 ELSE 8)
    + 2 * d + (IF p = NoText THEN 1 ELSE 2)

ValRows ==
    { SectionRow(ValRowId(l, n, d, p), l, n, p, <<"t">>, <<"c">>, 1, 1, d) :
        l \in Languages, n \in ValNumbers, d \in {0, 1}, p \in ValParents }
    \cup
    { SectionRow(25, "vhdl", <<"3">>, NoText, <<"t">>, <<"c">>, 2, 1, 0),
      SectionRow(26, "vhdl", <<"3">>, NoText, <<"t">>, <<"c">>, 0, 1, 0) }

\* the subsets of S of at most n elements
RECURSIVE SubsetsUpTo(_, _)
SubsetsUpTo(S, n) ==
    IF n = 0 THEN {{}}
    ELSE LET prev == SubsetsUpTo(S, n - 1)
         IN  prev \cup { T \cup {x} : T \in prev, x \in S }

\* a code example and a table of the verilog section of row id 1
ValCode ==
    { [id |-> 1, section_id |-> 1, language |-> "verilog",
       code |-> LongCode, description |-> None, line_start |-> 0] }

ValTables ==
    { [id |-> 1, section_id |-> 1, language |-> "verilog",
       caption |-> NoText, markdown |-> <<"X">>] }

\* the store a validate invocation is pointed at (--db)
ValStoreInit ==
    /\ db_sections \in SubsetsUpTo(ValRows, MaxStoreRows)
    /\ \E a \in BOOLEAN :
         /\ db_code = (IF a THEN ValCode ELSE {})
         /\ db_tables = (IF a THEN ValTables ELSE {})
    /\ db_meta = {}
    /\ db_seq = [sections |-> 26, code |-> 1, tables |-> 1, meta |-> 0]
    /\ db_emb = {}
    /\ db_emb_seq = 0

ValInit ==
    /\ vd_pc = "idle"
    /\ vd_language = None
    /\ vd_issues = NoIssues
    /\ vd_stats = NoStats
    /\ vd_status = NoInt
    /\ vd_exit = NoInt

\* main 373-390 and __init__ 29-43: a missing store file raises
\* FileNotFoundError, which ends the process with status 1
ValidateStart(language, db_exists) ==
    /\ vd_pc = "idle"
    /\ vd_language' = language
    /\ vd_issues' = NoIssues
    /\ vd_stats' = NoStats
    /\ vd_status' = NoInt
    /\ IF db_exists
       THEN vd_pc' = "hierarchy" /\ vd_exit' = NoInt
       ELSE vd_pc' = "exited" /\ vd_exit' = 1
    /\ UNCHANGED <<chunkVars, dbEmbVars, embVars, clearVars, parseVars, tableVars, storeVars, runVars, connVars, queryVars, assocVars>>

\* validate_all 56
CheckSectionHierarchy ==
    /\ vd_pc = "hierarchy"
    /\ vd_issues' = check_section_hierarchy(db_sections, vd_language, vd_issues)
    /\ vd_pc' = "duplicates"
    /\ UNCHANGED <<vd_language, vd_stats, vd_status, vd_exit>>
    /\ UNCHANGED <<chunkVars, dbEmbVars, embVars, clearVars, parseVars, tableVars, storeVars, runVars, connVars, queryVars, assocVars>>

\* validate_all 57
CheckDuplicates ==
    /\ vd_pc = "duplicates"
    /\ vd_issues' = check_duplicates(db_sections, vd_language, vd_issues)
    /\ vd_pc' = "pages"
    /\ UNCHANGED <<vd_language, vd_stats, vd_status, vd_exit>>
    /\ UNCHANGED <<chunkVars, dbEmbVars, embVars, clearVars, parseVars, tableVars, storeVars, runVars, connVars, queryVars, assocVars>>

\* validate_all 58
CheckPageNumbers ==
    /\ vd_pc = "pages"
    /\ vd_issues' = check_page_numbers(db_sections, vd_language, vd_issues)
    /\ vd_pc' = "parents"
    /\ UNCHANGED <<vd_language, vd_stats, vd_status, vd_exit>>
    /\ UNCHANGED <<chunkVars, dbEmbVars, embVars, clearVars, parseVars, tableVars, storeVars, runVars, connVars, queryVars, assocVars>>

\* validate_all 59
CheckParentReferences ==
    /\ vd_pc = "parents"
    /\ vd_issues' = check_parent_references(db_sections, vd_language, vd_issues)
    /\ vd_pc' = "code"
    /\ UNCHANGED <<vd_language, vd_stats, vd_status, vd_exit>>
    /\ UNCHANGED <<chunkVars, dbEmbVars, embVars, clearVars, parseVars, tableVars, storeVars, runVars, connVars, queryVars, assocVars>>

\* validate_all 60
CheckCodeAssociations ==
    /\ vd_pc = "code"
    /\ vd_issues' =
         check_code_associations(db_code, db_sections, vd_language, vd_issues)
    /\ vd_pc' = "tables"
    /\ UNCHANGED <<vd_language, vd_stats, vd_status, vd_exit>>
    /\ UNCHANGED <<chunkVars, dbEmbVars, embVars, clearVars, parseVars, tableVars, storeVars, runVars, connVars, queryVars, assocVars>>

\* validate_all 61
CheckTableAssociations ==
    /\ vd_pc = "tables"
    /\ vd_issues' =
         check_table_associations(db_tables, db_sections, vd_language, vd_issues)
    /\ vd_pc' = "statistics"
    /\ UNCHANGED <<vd_language, vd_stats, vd_status, vd_exit>>
    /\ UNCHANGED <<chunkVars, dbEmbVars, embVars, clearVars, parseVars, tableVars, storeVars, runVars, connVars, queryVars, assocVars>>

\* validate_all 62
CollectStatistics ==
    /\ vd_pc = "statistics"
    /\ vd_stats' = collect_statistics(db_sections, db_code, db_tables, vd_language)
    /\ vd_pc' = "report"
    /\ UNCHANGED <<vd_language, vd_issues, vd_status, vd_exit>>
    /\ UNCHANGED <<chunkVars, dbEmbVars, embVars, clearVars, parseVars, tableVars, storeVars, runVars, connVars, queryVars, assocVars>>

\* validate_all 65: print_report is called and its value is not kept
PrintReport ==
    /\ vd_pc = "report"
    /\ vd_status' = print_report(vd_issues)
    /\ vd_pc' = "returned"
    /\ UNCHANGED <<vd_language, vd_issues, vd_stats, vd_exit>>
    /\ UNCHANGED <<chunkVars, dbEmbVars, embVars, clearVars, parseVars, tableVars, storeVars, runVars, connVars, queryVars, assocVars>>

\* validate_all 67-70 and main 391-395: the dict is returned to main, which
\* drops it and returns; the interpreter exits with status 0
ValidateExit ==
    /\ vd_pc = "returned"
    /\ vd_exit' = 0
    /\ vd_pc' = "exited"
    /\ UNCHANGED <<vd_language, vd_issues, vd_stats, vd_status>>
    /\ UNCHANGED <<chunkVars, dbEmbVars, embVars, clearVars, parseVars, tableVars, storeVars, runVars, connVars, queryVars, assocVars>>

----------------------------------------------------------------------------
(* Embedding passes and clear passes on one store, one process at a time   *)

MaxEmbRows == 7

\* the store of SpecPasses: three ingested sections, no embeddings
PassStoreInit ==
    /\ db_sections =
          { SectionRow(1, "verilog", <<"2">>, NoText, <<"t">>, <<"a">>, 1, 1, 0),
            SectionRow(2, "verilog", <<"1">>, NoText, <<"t">>, <<"a", "b", "a">>, 1, 1, 0),
            SectionRow(3, "vhdl",    <<"1">>, NoText, <<"u">>, <<"a">>, 1, 1, 0) }
    /\ db_emb = {}
    /\ db_emb_seq = 0

\* generate_embeddings.py is started while no clear_embeddings process runs
PassEmbStart(model, language, batch_size) ==
    /\ cl_pc = "idle"
    /\ db_emb_seq + Len(get_sections_without_embeddings(db_sections, db_emb,
                                                        model, language))
          <= MaxEmbRows
    /\ EmbStart(model, language, batch_size, "cpu")

\* clear_embeddings.py is started while no embedding pass runs
PassClearStart(args) ==
    /\ em_pc = "idle"
    /\ ClearStart(args)

\* clear_embeddings.py main 138: the process of the clear pass ends
ClearExit ==
    /\ cl_pc = "done"
    /\ cl_pc' = "idle"
    /\ cl_args' = [model |-> None, language |-> None, clear_all |-> FALSE]
    /\ cl_response' = None
    /\ cl_count_before' = 0
    /\ cl_pre_emb' = {}
    /\ cl_pre_sections' = {}
    /\ UNCHANGED cl_deleted
    /\ UNCHANGED <<chunkVars, dbEmbVars, embVars, parseVars, tableVars, storeVars, runVars, valVars, connVars, queryVars, assocVars>>

----------------------------------------------------------------------------
(* Ingestion runs and embedding passes on one store, one process at a time *)

MaxReRuns == 2

\* the documents ingested in SpecReingest
ReDocs == { d \in Docs : d.sections \in { <<S1>>, <<S1, S11>> } }

\* parse_lrm.py is started while no embedding pass runs
ReRunStart(language, doc) ==
    /\ em_pc = "idle"
    /\ rp_runs < MaxReRuns
    /\ RunStart(language, doc)

\* generate_embeddings.py is started while no ingestion run is in progress
ReEmbStart(model, language) ==
    /\ rp_pc = "idle"
    /\ db_emb_seq + Len(get_sections_without_embeddings(db_sections, db_emb,
                                                        model, language))
          <= MaxEmbRows
    /\ EmbStart(model, language, MaxBatchSize, "cpu")

----------------------------------------------------------------------------
(* Query service: embedding_server.py 46-163, encode_query.py 45-80        *)

ConnInit == em_conn = FALSE /\ em_tx = {}

\* a JSON body
ErrorBody(message) == [error |-> message]

NoResponse == [status |-> 0, body |-> [none |-> TRUE]]

NoRequest == [malformed |-> FALSE, has_data |-> FALSE, has_query |-> FALSE,
              query |-> NoText]

\* the bodies of POST /encode: not JSON, null or {}, an object without
\* "query", an object whose "query" is a string, and one whose "query" is
\* not a string (NoText)
QueryTexts == { <<>>, <<"a">>, <<"a", "b">> }

Requests ==
    { [malformed |-> TRUE, has_data |-> FALSE, has_query |-> FALSE,
       query |-> NoText],
      [malformed |-> FALSE, has_data |-> FALSE, has_query |-> FALSE,
       query |-> NoText],
      [malformed |-> FALSE, has_data |-> TRUE, has_query |-> FALSE,
       query |-> NoText] }
    \cup
    { [malformed |-> FALSE, has_data |-> TRUE, has_query |-> TRUE,
       query |-> q] : q \in QueryTexts \cup {NoText} }

\* model.encode(query, normalize_embeddings=True) raises for a query that
\* is not text
Encodable(query) == query # NoText

\* mutant: dimension reports the length of the query
EncodeDimensionOfQuery(query, embedding) == Len(query)

\* embedding_server.py 116 and encode_query.py 69: len(embedding)
EncodeDimension(query, embedding) == Len(embedding)

\* embedding_server.py 88-124
encode(model, name, device, request) ==
    IF model = None
    THEN [status |-> 503, body |-> ErrorBody("Model not loaded")]
    ELSE IF request.malformed
    THEN [status |-> 500, body |-> ErrorBody("get_json")]
    ELSE IF ~request.has_data \/ ~request.has_query
    THEN [status |-> 400, body |-> ErrorBody("Missing query field")]
    ELSE IF ~Encodable(request.query)
    THEN [status |-> 500, body |-> ErrorBody("encode")]
    ELSE LET embedding == Encode(request.query)
         IN  [status |-> 200,
              body |-> [embedding |-> embedding, model |-> name,
                        dimension |-> EncodeDimension(request.query, embedding),
                        device |-> device]]

\* mutant: the server starts although the model failed to load
ServerAfterLoadAlwaysServes(loaded) == "serving"

\* embedding_server.py 150-163: sys.exit(1) when load_model raises,
\* app.run otherwise
ServerAfterLoad(loaded) == IF loaded THEN "serving" ELSE "exited"

QueryInit ==
    /\ sv_pc = "init"
    /\ sv_model = None
    /\ sv_model_name = None
    /\ sv_request = NoRequest
    /\ sv_response = NoResponse
    /\ sv_exit = NoInt
    /\ cq_pc = "idle"
    /\ cq_output = [none |-> TRUE]
    /\ cq_exit = NoInt

\* embedding_server.py main 147-163
ServerMain(name, loaded) ==
    /\ sv_pc = "init"
    /\ sv_model' = (IF loaded THEN name ELSE None)
    /\ sv_model_name' = (IF loaded THEN name ELSE None)
    /\ sv_pc' = ServerAfterLoad(loaded)
    /\ sv_exit' = (IF loaded THEN NoInt ELSE 1)
    /\ UNCHANGED <<sv_request, sv_response, cq_pc, cq_output, cq_exit>>
    /\ UNCHANGED <<chunkVars, dbEmbVars, embVars, clearVars, parseVars, tableVars, storeVars, runVars, valVars, connVars, assocVars>>

\* the module is imported and app is served by another runner: main, and
\* with it load_model, never runs (39-44)
ServerImported ==
    /\ sv_pc = "init"
    /\ sv_pc' = "serving"
    /\ UNCHANGED <<sv_model, sv_model_name, sv_request, sv_response, sv_exit,
                   cq_pc, cq_output, cq_exit>>
    /\ UNCHANGED <<chunkVars, dbEmbVars, embVars, clearVars, parseVars, tableVars, storeVars, runVars, valVars, connVars, assocVars>>

\* embedding_server.py 88-124: one POST /encode
ServerEncode(request) ==
    /\ sv_pc = "serving"
    /\ sv_request' = request
    /\ sv_response' = encode(sv_model, sv_model_name, "cpu", request)
    /\ UNCHANGED <<sv_pc, sv_model, sv_model_name, sv_exit, cq_pc, cq_output,
                   cq_exit>>
    /\ UNCHANGED <<chunkVars, dbEmbVars, embVars, clearVars, parseVars, tableVars, storeVars, runVars, valVars, connVars, assocVars>>

\* encode_query.py main 52-80: one invocation with a query text
EncodeQueryMain(query, name, loaded) ==
    /\ cq_pc = "idle"
    /\ cq_pc' = "exited"
    /\ IF loaded
       THEN /\ cq_output' =
                 [embedding |-> Encode(query), model |-> name,
                  dimension |-> EncodeDimension(query, Encode(query)),
                  device |-> "cpu"]
            /\ cq_exit' = 0
       ELSE /\ cq_output' = ErrorBody("load")
            /\ cq_exit' = 1
    /\ UNCHANGED <<sv_pc, sv_model, sv_model_name, sv_request, sv_response,
                   sv_exit>>
    /\ UNCHANGED <<chunkVars, dbEmbVars, embVars, clearVars, parseVars, tableVars, storeVars, runVars, valVars, connVars, assocVars>>

----------------------------------------------------------------------------
(* Content Associator on one document: run 530-534                         *)

MaxAssocCode == 1
MaxAssocTables == 1

\* fenced code blocks of at least 10 characters at lines 0, 100 and 150 of
\* the markdown: estimated pages 1, 2 and 3
CodeBlocks ==
    { [code |-> LongCode, lang |-> None, line_num |-> n] : n \in {0, 100, 150} }

AssocInit ==
    /\ as_pc = "idle"
    /\ as_sections = <<>>
    /\ as_code = <<>>
    /\ as_tables = <<>>
    /\ as_code_result = <<>>
    /\ as_tables_result = <<>>

\* run 527-534: the extractors are called with the extracted sections
AssocCall ==
    /\ as_pc = "idle"
    /\ \E ss \in SeqsUpTo(AssocSections, MaxAssocSections),
          cs \in SeqsUpTo(CodeBlocks, MaxAssocCode),
          ts \in SeqsUpTo(TableObjects, MaxAssocTables) :
            /\ as_sections' = ss
            /\ as_code' = cs
            /\ as_tables' = ts
    /\ as_pc' = "called"
    /\ UNCHANGED <<as_code_result, as_tables_result>>
    /\ UNCHANGED <<chunkVars, dbEmbVars, embVars, clearVars, parseVars, tableVars, storeVars, runVars, valVars, connVars, queryVars>>

\* extract_code_examples 271-320 and extract_tables 322-385
AssocReturn ==
    /\ as_pc = "called"
    /\ as_code_result' = extract_code_examples(as_code, as_sections)
    /\ as_tables_result' =
          extract_tables(as_sections, as_tables).tables_by_section
    /\ as_pc' = "returned"
    /\ UNCHANGED <<as_sections, as_code, as_tables>>
    /\ UNCHANGED <<chunkVars, dbEmbVars, embVars, clearVars, parseVars, tableVars, storeVars, runVars, valVars, connVars, queryVars>>

----------------------------------------------------------------------------
(* Specifications *)

ChunkNext ==
    \/ ChunkCall
    \/ ChunkReturn

InitChunk == ChunkInit /\ EmptyStoreInit /\ EmbInit /\ ClearInit /\ ParseInit /\ TablesInit /\ StoreDbInit /\ RunInit /\ ValInit /\ ConnInit /\ QueryInit /\ AssocInit

SpecChunk == InitChunk /\ [][ChunkNext]_vars

EmbNext ==
    \/ \E m \in Models, l \in Languages \cup {None},
          b \in 1..MaxBatchSize, d \in {"cpu", "cuda"} : EmbStart(m, l, b, d)
    \/ EmbPrepare
    \/ EmbEncode
    \/ EmbAggregate
    \/ EmbStore
    \/ EmbRelease
    \/ EmbClearCache
    \/ EmbComplete
    \/ EmbFails

InitEmbed == ChunkInit /\ EmbStoreInit /\ EmbInit /\ ClearInit /\ ParseInit /\ TablesInit /\ StoreDbInit /\ RunInit /\ ValInit /\ ConnInit /\ QueryInit /\ AssocInit

SpecEmbed == InitEmbed /\ [][EmbNext]_vars

ParseNext ==
    \/ NativeStart
    \/ \E item \in Items : NativeItem(item)
    \/ NativeEnd
    \/ \E ok \in BOOLEAN : FallbackStart(ok)
    \/ \E line \in MarkdownLines : FallbackLine(line)
    \/ FallbackEnd

InitParse == ChunkInit /\ EmptyStoreInit /\ EmbInit /\ ClearInit /\ ParseInit /\ TablesInit /\ StoreDbInit /\ RunInit /\ ValInit /\ ConnInit /\ QueryInit /\ AssocInit

SpecParse == InitParse /\ [][ParseNext]_vars

TablesNext ==
    \/ TablesCall
    \/ TablesReturn

InitTables == ChunkInit /\ EmptyStoreInit /\ EmbInit /\ ClearInit /\ ParseInit /\ TablesInit /\ StoreDbInit /\ RunInit /\ ValInit /\ ConnInit /\ QueryInit /\ AssocInit

SpecTables == InitTables /\ [][TablesNext]_vars

ClearNext ==
    \/ \E a \in ClearArgs : ClearStart(a)
    \/ \E r \in Responses : ClearAnswer(r)

InitClear == ChunkInit /\ ClearStoreInit /\ EmbInit /\ ClearInit /\ ParseInit /\ TablesInit /\ StoreDbInit /\ RunInit /\ ValInit /\ ConnInit /\ QueryInit /\ AssocInit

SpecClear == InitClear /\ [][ClearNext]_vars

StoreNext ==
    \/ \E l \in Languages, d \in Docs : RunStart(l, d)
    \/ StorePurge
    \/ StoreSection
    \/ StoreNextStage
    \/ StoreCode
    \/ StoreTable
    \/ StoreMetadata
    \/ StoreWriteFails
    \/ RunExit

InitStore == ChunkInit /\ EmptyStoreInit /\ EmbInit /\ ClearInit /\ ParseInit /\ TablesInit /\ StoreDbInit /\ RunInit /\ ValInit /\ ConnInit /\ QueryInit /\ AssocInit

SpecStore == InitStore /\ [][StoreNext]_vars

ValidateNext ==
    \/ \E l \in Languages \cup {None}, e \in BOOLEAN : ValidateStart(l, e)
    \/ CheckSectionHierarchy
    \/ CheckDuplicates
    \/ CheckPageNumbers
    \/ CheckParentReferences
    \/ CheckCodeAssociations
    \/ CheckTableAssociations
    \/ CollectStatistics
    \/ PrintReport
    \/ ValidateExit

InitValidate == ChunkInit /\ ValStoreInit /\ EmbInit /\ ClearInit /\ ParseInit /\ TablesInit /\ RunInit /\ ValInit /\ ConnInit /\ QueryInit /\ AssocInit

SpecValidate == InitValidate /\ [][ValidateNext]_vars

PassesNext ==
    \/ \E m \in Models, l \in Languages \cup {None}, b \in 1..MaxBatchSize :
          PassEmbStart(m, l, b)
    \/ EmbPrepare
    \/ EmbEncode
    \/ EmbAggregate
    \/ EmbStore
    \/ EmbRelease
    \/ EmbClearCache
    \/ EmbComplete
    \/ \E a \in ClearArgs : PassClearStart(a)
    \/ \E r \in Responses : ClearAnswer(r)
    \/ ClearExit

InitPasses == ChunkInit /\ PassStoreInit /\ EmbInit /\ ClearInit /\ ParseInit /\ TablesInit /\ StoreDbInit /\ RunInit /\ ValInit /\ ConnInit /\ QueryInit /\ AssocInit

SpecPasses == InitPasses /\ [][PassesNext]_vars

ReingestNext ==
    \/ \E l \in Languages, d \in ReDocs : ReRunStart(l, d)
    \/ StorePurge
    \/ StoreSection
    \/ StoreNextStage
    \/ StoreCode
    \/ StoreTable
    \/ StoreMetadata
    \/ StoreWriteFails
    \/ RunExit
    \/ \E l \in Languages \cup {None} : ReEmbStart("M", l)
    \/ EmbPrepare
    \/ EmbEncode
    \/ EmbAggregate
    \/ EmbStore
    \/ EmbRelease
    \/ EmbClearCache
    \/ EmbComplete

InitReingest == ChunkInit /\ EmptyStoreInit /\ EmbInit /\ ClearInit /\ ParseInit /\ TablesInit /\ StoreDbInit /\ RunInit /\ ValInit /\ ConnInit /\ QueryInit /\ AssocInit

SpecReingest == InitReingest /\ [][ReingestNext]_vars

ServiceNext ==
    \/ \E n \in Models, ok \in BOOLEAN : ServerMain(n, ok)
    \/ ServerImported
    \/ \E r \in Requests : ServerEncode(r)
    \/ \E q \in QueryTexts, n \in Models, ok \in BOOLEAN :
          EncodeQueryMain(q, n, ok)
    \/ \E m \in Models : EmbLoadFails(m)
    \/ \E m \in Models : EmbStart(m, None, MaxBatchSize, "cpu")
    \/ EmbPrepare
    \/ EmbEncode
    \/ EmbAggregate
    \/ EmbStore
    \/ EmbRelease
    \/ EmbClearCache
    \/ EmbComplete

InitService == ChunkInit /\ PassStoreInit /\ EmbInit /\ ClearInit /\ ParseInit /\ TablesInit /\ StoreDbInit /\ RunInit /\ ValInit /\ ConnInit /\ QueryInit /\ AssocInit

SpecService == InitService /\ [][ServiceNext]_vars

AssocNext ==
    \/ AssocCall
    \/ AssocReturn

InitAssoc == ChunkInit /\ EmptyStoreInit /\ EmbInit /\ ClearInit /\ ParseInit /\ TablesInit /\ StoreDbInit /\ RunInit /\ ValInit /\ ConnInit /\ QueryInit /\ AssocInit

SpecAssoc == InitAssoc /\ [][AssocNext]_vars

----------------------------------------------------------------------------
(* C1 *)

ChunkStride == ck_size - ck_overlap

\* C1: chunk_text(text, w, o) with 0 < o < w returns [text] iff
\* len(text) <= w; when len(text) > w every chunk has length <= w, chunk i
\* (0-based) is text[i*(w-o) : min(i*(w-o)+w, len(text))], every index of
\* text lies inside some chunk, and the last chunk ends at len(text).
C1_ChunkContract ==
    ck_pc = "returned" =>
        LET n == Len(ck_text)
            k == Len(ck_result)
        IN  /\ (ck_result = <<ck_text>>) <=> (n <= ck_size)
            /\ n > ck_size =>
                 /\ k >= 2
                 /\ \A i \in 1..k :
                      LET s == (i - 1) * ChunkStride
                          e == Min(s + ck_size, n)
                      IN  /\ Len(ck_result[i]) <= ck_size
                          /\ Len(ck_result[i]) = e - s
                          /\ \A p \in 1..(e - s) : ck_result[i][p] = ck_text[s + p]
                 /\ \A p \in 1..n :
                      \E i \in 1..k :
                          /\ (i - 1) * ChunkStride < p
                          /\ p <= (i - 1) * ChunkStride + Len(ck_result[i])
                 /\ (k - 1) * ChunkStride + Len(ck_result[k]) = n

\* a text longer than the window was split into three overlapping chunks
C1_Witness ==
    /\ ck_pc = "returned"
    /\ Len(ck_text) > ck_size
    /\ Len(ck_result) = 3
    /\ ck_overlap >= 1

----------------------------------------------------------------------------
(* C2 *)

\* v is the elementwise arithmetic mean of the encoder outputs of the chunks
\* of text, and has the encoder's dimension
IsMeanOfChunks(v, text) ==
    LET cs == chunk_text(text, EmbChunkSize, EmbOverlap)
        es == [i \in 1..Len(cs) |-> Encode(cs[i])]
    IN  /\ DOMAIN v = 1..Dim
        /\ \A d \in 1..Dim :
              /\ v[d].den > 0
              /\ v[d].num * Len(cs) = v[d].den * SumAt(es, d)

\* C2: for every batch of process_sections, exactly one vector is produced
\* per section of the batch, and the vector stored for the j-th section is
\* the elementwise mean of the encoder outputs of exactly the chunks of that
\* section, with the encoder's dimension.
C2_OneMeanVectorPerSection ==
    /\ em_pc = "store" =>
          /\ Len(em_section_embeddings) = Len(CurrentBatch)
          /\ \A j \in 1..Len(CurrentBatch) :
                IsMeanOfChunks(em_section_embeddings[j],
                               EmbedText(CurrentBatch[j]))
    /\ em_pc = "release" =>
          \A j \in 1..Len(CurrentBatch) :
             LET rows == {e \in db_emb : /\ e.section_id = CurrentBatch[j].id
                                         /\ e.embedding_model = em_model}
             IN  /\ Cardinality(rows) = 1
                 /\ \A e \in rows :
                       IsMeanOfChunks(e.embedding, EmbedText(CurrentBatch[j]))

\* a stored batch of two sections, the first of one chunk, the second of
\* several chunks
C2_Witness ==
    /\ em_pc = "release"
    /\ Len(CurrentBatch) = 2
    /\ Len(em_map) >= 3
    /\ em_map[1] = 0
    /\ em_map[2] = 1

----------------------------------------------------------------------------
(* C9 *)

ClearConfirmed == cl_pc = "done" /\ Lower(cl_response) = "y"

\* C9: a confirmed clear_embeddings with model M and no language removes
\* exactly the section_embeddings rows whose model is M, rows of every other
\* model and all sections rows are unchanged; with a language filter the
\* rows of M for other languages are unchanged as well.
C9_ClearFrame ==
    (ClearConfirmed /\ ~cl_args.clear_all) =>
        /\ db_sections = cl_pre_sections
        /\ db_emb \subseteq cl_pre_emb
        /\ \A e \in cl_pre_emb :
              (e \in db_emb) <=>
                 \/ e.embedding_model # cl_args.model
                 \/ /\ cl_args.language # None
                    /\ e.language # cl_args.language

\* model M was cleared without a language filter in a store that held rows
\* of M and of N: the rows of N are still there
C9_Witness ==
    /\ ClearConfirmed
    /\ cl_args = [model |-> "M", language |-> None, clear_all |-> FALSE]
    /\ \E e \in cl_pre_emb : e.embedding_model = "M"
    /\ \E e \in db_emb : e.embedding_model = "N"
    /\ ~\E e \in db_emb : e.embedding_model = "M"

----------------------------------------------------------------------------
(* C3 *)

\* the sections the extractor holds: emitted, under construction, returned
ExtractedSections ==
    Range(ex_sections) \cup Range(ex_result) \cup Range(fb_heap) \cup
    (IF ex_current = NoSection THEN {} ELSE {ex_current})

\* the index of the last '.' of a section number that has one
LastDot(number) ==
    CHOOSE i \in DOMAIN number :
        number[i] = "." /\ \A k \in (i + 1)..Len(number) : number[k] # "."

\* C3: every section produced by extraction (numbered or unnumbered heading,
\* native or fallback extractor) has depth equal to the number of '.'
\* characters of its section number, and parent_section equal to the number
\* with its last dot-separated segment removed when depth > 0, null when
\* depth = 0.
C3_DepthAndParent ==
    \A sec \in ExtractedSections :
        LET dots == {i \in DOMAIN sec.section_number :
                        sec.section_number[i] = "."}
        IN  /\ sec.depth = Cardinality(dots)
            /\ IF dots = {}
               THEN sec.parent_section = NoText
               ELSE sec.parent_section =
                      SubSeq(sec.section_number, 1,
                             LastDot(sec.section_number) - 1)

\* the native extractor returned a section numbered 1.1.2 with parent 1.1
\* next to a top-level section
C3_Witness ==
    /\ ex_pc = "done"
    /\ ex_sections # <<>>
    /\ \E sec \in Range(ex_result) :
          /\ sec.section_number = <<"1", ".", "1", ".", "2">>
          /\ sec.depth = 2
          /\ sec.parent_section = <<"1", ".", "1">>
    /\ \E sec \in Range(ex_result) : sec.depth = 0 /\ sec.parent_section = NoText

----------------------------------------------------------------------------
(* C10 *)

\* the tables that reach the duplicate check: mapped to a section and
\* rendered to a non-empty markdown
ExtractedTables ==
    {i \in DOMAIN tb_tables : tb_sections # <<>> /\ tb_tables[i].markdown # <<>>}

\* the positions of tables_by_section that hold a table of markdown m
KeptPositions(m) ==
    LET tbs == tb_result.tables_by_section
    IN  {kj \in (DOMAIN tbs) \X (1..Len(tb_tables)) :
            /\ kj[2] \in DOMAIN tbs[kj[1]].items
            /\ tbs[kj[1]].items[kj[2]].markdown = m}

\* C10: within one run, among the extracted tables whose markdown rendering
\* is identical exactly one is kept for storage, under the section of the
\* first of them in extraction order, and every later one is counted as a
\* duplicate, also when the identical tables lie on pages of different
\* sections.
C10_TableDedup ==
    tb_pc = "returned" =>
        /\ \A i \in ExtractedTables :
              LET m == tb_tables[i].markdown
                  first == CHOOSE f \in ExtractedTables :
                              /\ tb_tables[f].markdown = m
                              /\ \A g \in ExtractedTables :
                                    tb_tables[g].markdown = m => f <= g
              IN  /\ Cardinality(KeptPositions(m)) = 1
                  /\ \A kj \in KeptPositions(m) :
                        tb_result.tables_by_section[kj[1]].key =
                           AssignSection(tb_sections,
                                         PageOr1(tb_tables[first].page))
        /\ tb_result.duplicates_skipped =
              Cardinality(ExtractedTables) -
              Cardinality({tb_tables[i].markdown : i \in ExtractedTables})
        /\ \A k \in DOMAIN tb_result.tables_by_section :
              \A j \in DOMAIN tb_result.tables_by_section[k].items :
                 \E i \in ExtractedTables :
                    tb_tables[i].markdown =
                       tb_result.tables_by_section[k].items[j].markdown

\* two tables of identical markdown on pages of different sections: the
\* first was kept, the second counted as a duplicate
C10_Witness ==
    /\ tb_pc = "returned"
    /\ Len(tb_tables) = 2
    /\ tb_tables[1].markdown = <<"X">>
    /\ tb_tables[2].markdown = <<"X">>
    /\ Len(tb_sections) = 2
    /\ AssignSection(tb_sections, PageOr1(tb_tables[1].page)) #
       AssignSection(tb_sections, PageOr1(tb_tables[2].page))
    /\ tb_result.duplicates_skipped = 1
    /\ Cardinality(KeptPositions(<<"X">>)) = 1

----------------------------------------------------------------------------
(* Ingestion runs: uniqueness, replacement, rollback (SpecStore) *)

\* the stored section without its row id and language
RowContent(r) ==
    [section_number |-> r.section_number, parent_section |-> r.parent_section,
     title |-> r.title, page_start |-> r.page_start, page_end |-> r.page_end,
     depth |-> r.depth, content |-> r.content]

RowsOf(rows, language) == { r \in rows : r.language = language }

\* C4: after any sequence of ingestion runs, succeeding or failing, no two
\* rows of the sections table share the same (language, section_number)
C4_SectionsUnique ==
    \A r1 \in db_sections, r2 \in db_sections :
        (r1.language = r2.language /\ r1.section_number = r2.section_number)
            => r1 = r2

\* a second run whose section list repeats a number was refused by the
\* store, which holds the sections of the first run
C4_Witness ==
    /\ rp_pc = "failed"
    /\ ~rp_fault
    /\ rp_doc.sections = <<S1, S1b>>
    /\ rp_section_ids # <<>>
    /\ db_sections # {}

\* C5: after a successful ingestion run for language L the stored sections
\* of L are exactly the sections of this run, none of them a row of an
\* earlier run, and the section rows of the other languages are unchanged
C5_RunReplacesLanguage ==
    rp_pc = "committed" =>
        /\ { RowContent(r) : r \in RowsOf(db_sections, rp_language) }
               = Range(rp_doc.sections)
        /\ Cardinality(RowsOf(db_sections, rp_language))
               = Len(rp_doc.sections)
        /\ RowsOf(db_sections, rp_language) \cap rp_pre.sections = {}
        /\ db_sections \ RowsOf(db_sections, rp_language)
               = rp_pre.sections \ RowsOf(rp_pre.sections, rp_language)

\* a run committed new sections of a language that had sections of an
\* earlier run, next to sections of another language
C5_Witness ==
    /\ rp_pc = "committed"
    /\ rp_doc.sections # <<>>
    /\ RowsOf(rp_pre.sections, rp_language) # {}
    /\ rp_pre.sections \ RowsOf(rp_pre.sections, rp_language) # {}
    /\ { RowContent(r) : r \in RowsOf(rp_pre.sections, rp_language) }
           # Range(rp_doc.sections)

\* C6: when a write of store_in_database fails, also after the purge was
\* issued, sections, code_examples, tables and parse_metadata hold their
\* pre-run contents and the run ends with a nonzero exit status
C6_FailureRollsBack ==
    rp_pc = "failed" =>
        /\ db_sections = rp_pre.sections
        /\ db_code = rp_pre.code
        /\ db_tables = rp_pre.tables
        /\ db_meta = rp_pre.meta
        /\ rp_exit # NoInt
        /\ rp_exit # 0

\* a write failed after the purge of the language's earlier sections and
\* after at least one section of the run had been inserted
C6_Witness ==
    /\ rp_pc = "failed"
    /\ rp_fault
    /\ rp_section_ids # <<>>
    /\ RowsOf(rp_pre.sections, rp_language) # {}
    /\ db_sections = rp_pre.sections

\* the section list holds two sections of the same number
HasDuplicateNumbers(sections) ==
    \E i \in DOMAIN sections, j \in DOMAIN sections :
        i < j /\ sections[i].section_number = sections[j].section_number

\* the first occurrence of each section number
KeepFirst(sections) ==
    { sections[i] : i \in { k \in DOMAIN sections :
        \A j \in 1..(k - 1) :
            sections[j].section_number # sections[k].section_number } }

\* C7: when the extracted section list repeats a section number and no
\* write fails for another reason, the run completes successfully and
\* stores the first occurrence of each number
C7_DuplicatesRecovered ==
    (rp_pc \in {"committed", "failed"} /\ ~rp_fault
        /\ HasDuplicateNumbers(rp_doc.sections))
    => /\ rp_pc = "committed"
       /\ rp_exit = 0
       /\ { RowContent(r) : r \in RowsOf(db_sections, rp_language) }
              = KeepFirst(rp_doc.sections)

\* C8: whenever no run is writing, each code_examples row and each tables
\* row references a section that exists
C8_NoOrphanArtifacts ==
    rp_pc \in {"idle", "committed", "failed"} =>
        \A c \in db_code \cup db_tables :
            \E r \in db_sections : r.id = c.section_id

----------------------------------------------------------------------------
(* Validator: exit contract and classification of issues (SpecValidate) *)

\* all checks of the invocation have run and the report was printed
ValReported == vd_status # NoInt

\* C11: a validate invocation that ran its checks ends with a nonzero exit
\* status if and only if at least one critical issue was recorded
C11_ExitIffCritical ==
    (vd_pc = "exited" /\ ValReported) =>
        ((vd_exit # 0) <=> (vd_issues.critical # {}))

\* two stored sections of the validated scope share language and number
HasStoredDuplicate ==
    \E r1 \in Scope(db_sections, vd_language),
       r2 \in Scope(db_sections, vd_language) :
        /\ r1 # r2
        /\ r1.language = r2.language
        /\ r1.section_number = r2.section_number

\* C12: a critical duplicate issue is recorded exactly when two stored
\* sections of the validated scope share both language and section number
C12_DuplicateIffSameLanguage ==
    ValReported =>
        ((\E i \in vd_issues.critical : i.check = "duplicate")
            <=> HasStoredDuplicate)

\* the section's parent_section names a number no stored section carries
Orphaned(r) ==
    /\ r.parent_section # NoText
    /\ \A q \in db_sections : q.section_number # r.parent_section

\* the stored data has no defect other than orphaned sections
OnlyOrphanDefect ==
    /\ \E r \in db_sections : Orphaned(r)
    /\ \A r1 \in db_sections, r2 \in db_sections :
          (r1.language = r2.language
              /\ r1.section_number = r2.section_number) => r1 = r2
    /\ \A r \in db_sections :
          /\ r.depth = CountChar(r.section_number, ".")
          /\ r.parent_section = ParentOf(r.section_number)
          /\ 0 < r.page_start
          /\ r.page_start <= r.page_end
    /\ \A c \in db_code \cup db_tables :
          \E r \in db_sections : r.id = c.section_id

\* C13: when orphaned sections are the only defect of the stored data, the
\* validator records a warning for each of them in scope and no critical
\* issue, and the validation status is a pass
C13_OrphanIsWarningOnly ==
    (ValReported /\ OnlyOrphanDefect) =>
        /\ \A r \in Scope(db_sections, vd_language) :
              Orphaned(r) =>
                Issue("orphaned", r.id, r.section_number, 0)
                    \in vd_issues.warning
        /\ vd_issues.critical = {}
        /\ vd_status = 0

\* C14: a stored depth that differs from the dot-count of the section's
\* number is recorded as a critical issue and the validation fails
C14_DepthMismatchCritical ==
    ValReported =>
        \A r \in Scope(db_sections, vd_language) :
            r.depth # CountChar(r.section_number, ".") =>
                /\ Issue("depth_mismatch", r.id, r.section_number, 0)
                      \in vd_issues.critical
                /\ vd_status = 1

----------------------------------------------------------------------------
(* Embedding passes target only sections without a vector (SpecPasses) *)

\* the store holds a row of the model for the section
HasEmbedding(section, model) ==
    \E e \in db_emb :
        e.section_id = section.id /\ e.embedding_model = model

\* C15: an embedding pass for model M inserts rows only for sections that
\* have no row for M, so after any sequence of embedding and clear passes
\* no section has two rows of one model, and a pass that completed leaves
\* nothing to insert for a pass of the same model and scope
C15_OnlyMissingVectors ==
    /\ \A e1 \in db_emb, e2 \in db_emb :
          (e1.section_id = e2.section_id
              /\ e1.embedding_model = e2.embedding_model) => e1 = e2
    /\ em_pc \in {"prepare", "encode", "aggregate", "store"} =>
          \A k \in (em_i + 1)..Len(em_sections) :
              ~HasEmbedding(em_sections[k], em_model)
    /\ em_pc = "complete" =>
          \A s \in db_sections :
              (em_language # None => s.language = em_language)
                  => HasEmbedding(s, em_model)

\* a pass found nothing to insert on a store whose rows were cleared and
\* embedded again
C15_Witness ==
    /\ em_pc = "complete"
    /\ em_sections = <<>>
    /\ em_language = None
    /\ Cardinality(db_emb) >= 3
    /\ db_emb_seq > Cardinality(db_emb)

----------------------------------------------------------------------------
(* Ingestion leaves the stored embeddings alone (SpecReingest) *)

\* C16: an ingestion run never deletes or modifies a section_embeddings
\* row: from its start to its end, committed or failed, the rows are those
\* present before the run
C16_IngestionKeepsEmbeddings ==
    rp_pc # "idle" => db_emb = rp_pre.emb

\* a run committed the new sections of a language whose earlier sections,
\* purged by the run, had embeddings
C16_Witness ==
    /\ rp_pc = "committed"
    /\ rp_pre.emb # {}
    /\ \E e \in db_emb :
          /\ e.language = rp_language
          /\ \E r \in rp_pre.sections : r.id = e.section_id
          /\ \A r \in db_sections : r.id # e.section_id

----------------------------------------------------------------------------
(* Query service responses and startup failures (SpecService) *)

\* the JSON document carries an embedding with its model and dimension
IsEmbeddingBody(body) ==
    /\ {"embedding", "model", "dimension"} \subseteq DOMAIN body
    /\ "error" \notin DOMAIN body
    /\ body.dimension = Len(body.embedding)

IsErrorBody(body) ==
    "error" \in DOMAIN body /\ "embedding" \notin DOMAIN body

\* C17: every encode request gets either embedding, model and dimension
\* with dimension = len(embedding), or error; a request that arrives while
\* no model is loaded, or without a query field, gets error
C17_EmbeddingOrError ==
    /\ sv_response # NoResponse =>
          /\ IsEmbeddingBody(sv_response.body) \/ IsErrorBody(sv_response.body)
          /\ (sv_model = None \/ ~sv_request.has_query)
                => IsErrorBody(sv_response.body)
    /\ cq_pc = "exited" =>
          IsEmbeddingBody(cq_output) \/ IsErrorBody(cq_output)

\* the server answered a query with its embedding, and encode_query.py
\* printed one
C17_Witness ==
    /\ sv_response # NoResponse
    /\ sv_response.status = 200
    /\ sv_request.query = <<"a", "b">>
    /\ IsEmbeddingBody(sv_response.body)
    /\ cq_pc = "exited"
    /\ cq_exit = 0

\* C18: when the encoder model cannot be loaded, the embedding pass exits
\* with a failure status without having opened the store or processed a
\* section, and the server exits without having answered a request
C18_LoadFailureIsFatal ==
    /\ em_exit = 1 =>
          /\ em_pc = "idle"
          /\ ~em_conn
          /\ em_processed = 0
          /\ em_sections = <<>>
    /\ sv_exit = 1 =>
          /\ sv_pc = "exited"
          /\ sv_model = None
          /\ sv_response = NoResponse

\* the model failed to load for an embedding pass and for the server
C18_Witness ==
    /\ em_exit = 1
    /\ em_pc = "idle"
    /\ db_emb = {}
    /\ sv_pc = "exited"
    /\ sv_exit = 1

----------------------------------------------------------------------------
(* Number of chunks (SpecChunk) *)

\* ceil(a / b) for b > 0
CeilDiv(a, b) == (a + b - 1) \div b

\* C19: for len(text) > window and 0 < overlap < window, chunk_text returns
\* exactly ceil((len(text) - overlap) / (window - overlap)) chunks
C19_ChunkCount ==
    (ck_pc = "returned" /\ Len(ck_text) > ck_size) =>
        Len(ck_result) =
            CeilDiv(Len(ck_text) - ck_overlap, ck_size - ck_overlap)

\* a text whose last chunk is shorter than the stride
C19_Witness ==
    /\ ck_pc = "returned"
    /\ Len(ck_text) > ck_size
    /\ (Len(ck_text) - ck_overlap) % (ck_size - ck_overlap) # 0
    /\ Len(ck_result) >= 3

----------------------------------------------------------------------------
(* Artifacts are assigned to sections by page (SpecAssoc) *)

\* the sections of the list, by position, whose page range contains p
Containing(sections, p) ==
    { i \in DOMAIN sections :
        sections[i].page_start <= p /\ p <= sections[i].page_end }

\* the number of the section an artifact of page p belongs to
ExpectedOwner(sections, p) ==
    IF Containing(sections, p) # {}
    THEN sections[CHOOSE i \in Containing(sections, p) :
                    \A j \in Containing(sections, p) : i <= j].section_number
    ELSE sections[Len(sections)].section_number

\* the keys of by_section under which an item satisfying the test is filed
CodeOwners(line_num) ==
    { as_code_result[k].key : k \in
        { q \in DOMAIN as_code_result :
            \E j \in DOMAIN as_code_result[q].items :
                as_code_result[q].items[j].line_start = line_num } }

TableOwners(markdown) ==
    { as_tables_result[k].key : k \in
        { q \in DOMAIN as_tables_result :
            \E j \in DOMAIN as_tables_result[q].items :
                as_tables_result[q].items[j].markdown = markdown } }

\* C20: each code block and each table of page p is assigned to exactly
\* one section, the first in build order whose page range contains p, or
\* the last section when none contains p; without sections it is dropped
C20_FirstContainingOrLast ==
    as_pc = "returned" =>
        /\ as_sections = <<>> =>
              as_code_result = <<>> /\ as_tables_result = <<>>
        /\ as_sections # <<>> =>
              /\ \A i \in DOMAIN as_code :
                    CodeOwners(as_code[i].line_num) =
                      { ExpectedOwner(as_sections,
                                      Max(1, as_code[i].line_num \div 50)) }
              /\ Len(Flatten(as_code_result, 1)) = Len(as_code)
              /\ \A i \in DOMAIN as_tables :
                    (/\ as_tables[i].markdown # <<>>
                     /\ \A g \in 1..(i - 1) :
                          as_tables[g].markdown # as_tables[i].markdown)
                    => TableOwners(as_tables[i].markdown) =
                         { ExpectedOwner(as_sections,
                                         PageOr1(as_tables[i].page)) }

\* a code block of a page that two sections contain went to the first of
\* them, and a table of a page that no section contains to the last
C20_Witness ==
    /\ as_pc = "returned"
    /\ Len(as_sections) = 2
    /\ as_sections[1].section_number # as_sections[2].section_number
    /\ Len(as_code) = 1
    /\ Cardinality(Containing(as_sections,
                               Max(1, as_code[1].line_num \div 50))) = 2
    /\ CodeOwners(as_code[1].line_num) = {as_sections[1].section_number}
    /\ Len(as_tables) = 1
    /\ Containing(as_sections, PageOr1(as_tables[1].page)) = {}
    /\ TableOwners(as_tables[1].markdown) = {as_sections[2].section_number}

----------------------------------------------------------------------------
(* C21 *)

\* C21: every section returned by section extraction, on the native path
\* and on the fallback path, has non-empty content: a heading followed by
\* no non-blank body text before the next heading or the end of the stream
\* produces no section.
C21_NoEmptySections ==
    ex_pc = "done" => \A i \in DOMAIN ex_result : ex_result[i].content # <<>>

----------------------------------------------------------------------------
(* C22 *)

\* the pages of section sec are those of the history record h
PagesAre(sec, h) == sec.page_start = h.page /\ sec.page_end = h.body_page

\* C22: every section under construction and every emitted section has
\* 1 <= page_start <= page_end; page_start is the page of the heading (1
\* when the heading has none) and page_end is the largest of page_start and
\* the known pages of the body elements consumed for the section.
C22_PageRange ==
    /\ \A sec \in ExtractedSections :
          1 <= sec.page_start /\ sec.page_start <= sec.page_end
    /\ ex_current # NoSection => PagesAre(ex_current, ex_cur_hist)
    /\ Len(ex_hist) = Len(ex_sections)
    /\ \A i \in DOMAIN ex_sections : PagesAre(ex_sections[i], ex_hist[i])
    /\ (ex_pc = "done" /\ ex_sections # <<>>) =>
          /\ Len(ex_result) = Len(ex_sections)
          /\ \A i \in DOMAIN ex_result : PagesAre(ex_result[i], ex_hist[i])

\* the native extractor returned a section that starts on page 2 and was
\* extended to page 3 by a body element, after a section of page 1 only
C22_Witness ==
    /\ ex_pc = "done"
    /\ Len(ex_result) = 2
    /\ Len(ex_hist) = 2
    /\ ex_result[1].page_start = 1
    /\ ex_result[1].page_end = 1
    /\ ex_result[2].page_start = 2
    /\ ex_result[2].page_end = 3

----------------------------------------------------------------------------
(* C23 *)

\* the heading text starts with a numeric label: digits, dot-separated
\* digit groups, then whitespace
HasNumericLabel(title) ==
    \E e \in 2..Len(LStrip(title)) :
        LET t == LStrip(title)
        IN  /\ IsSpace(t[e])
            /\ IsDigit(t[1])
            /\ IsDigit(t[e - 1])
            /\ \A k \in 1..(e - 1) : IsDigit(t[k]) \/ t[k] = "."
            /\ \A k \in 1..(e - 2) : ~(t[k] = "." /\ t[k + 1] = ".")

IsPlaceholder(number) == number # <<>> /\ Head(number) = "unnumbered_"

\* the sections of the native extractor: emitted, under construction,
\* returned
NativeSections ==
    Range(ex_sections) \cup
    (IF ex_current = NoSection THEN {} ELSE {ex_current}) \cup
    (IF ex_sections # <<>> THEN Range(ex_result) ELSE {})

----------------------------------------------------------------------------
(* C24 *)

\* one step of the Section Builder: the list of emitted sections grows only
\* at its end and only by the section under construction; afterwards every
\* section holds exactly the non-blank body elements that followed its
\* heading, and while no heading was seen there is no section at all
C24_Step ==
    /\ \/ ex_sections' = ex_sections
       \/ /\ ex_current # NoSection
          /\ ex_sections' = Append(ex_sections, ex_current)
    /\ ex_current' # NoSection => ex_current'.content = ex_cur_hist'.body
    /\ Len(ex_hist') = Len(ex_sections')
    /\ \A i \in DOMAIN ex_sections' :
          ex_sections'[i].content = ex_hist'[i].body
    /\ (ex_pc' = "done" /\ ex_sections' # <<>>) =>
          /\ Len(ex_result') = Len(ex_sections')
          /\ \A i \in DOMAIN ex_result' :
                /\ ex_result'[i].content =
                      Join(ex_hist'[i].body, <<"\n", "\n">>)
                /\ ex_result'[i].title = ex_sections'[i].title
    /\ (ex_current' = NoSection /\ fb_sections' = <<>>) =>
          ex_sections' = <<>> /\ ex_result' = <<>>

\* C24: in the Section Builder each non-blank body element is appended to
\* the content of exactly the section opened by the nearest preceding
\* heading; body elements before the first heading are discarded, appear in
\* no section's content and raise no section's page_end; emitted sections
\* appear in the order of their headings in the stream.
C24_BodyToNearestHeading == [][C24_Step]_vars

\* heading, y, heading, x, y: the first section was returned with content
\* y, the second with x and y
C24_Witness ==
    /\ ex_pc = "done"
    /\ ex_n = 5
    /\ Len(ex_result) = 2
    /\ ex_result[1].content = <<"y">>
    /\ ex_result[2].content = <<"x", "\n", "\n", "y">>
    /\ ex_hist[2].body = << <<"x">>, <<"y">> >>

----------------------------------------------------------------------------
(* C25 *)

\* section sec has a committed vector for the model of the pass
StoredForPass(sec) ==
    \E e \in db_emb \ em_tx :
        e.section_id = sec.id /\ e.embedding_model = em_model

\* a step of the pass: when the encoder is called, one call was made for
\* each earlier batch, the vectors of all earlier batches are stored and
\* committed, their buffers are released and the accelerator cache is
\* clear; the pass completes after one call per batch
C25_Step ==
    /\ em_encoder_calls' > em_encoder_calls =>
          /\ em_pc = "encode"
          /\ em_encoder_calls' = em_encoder_calls + 1
          /\ em_encoder_calls * em_batch_size = em_i
          /\ em_tx = {}
          /\ \A j \in 1..em_i : StoredForPass(em_sections[j])
          /\ em_chunk_embeddings = <<>>
          /\ em_section_embeddings = <<>>
          /\ ~em_gpu_cache
    /\ (em_pc = "cache" /\ em_pc' = "complete") =>
          /\ (em_encoder_calls - 1) * em_batch_size < Len(em_sections)
          /\ Len(em_sections) <= em_encoder_calls * em_batch_size
          /\ em_processed = Len(em_sections)

\* C25: in an embedding pass the batches are processed one after another:
\* the encoder is invoked once per batch, and between the encoder call of
\* batch k and the encoder call of batch k+1 the vectors of batch k are
\* stored and committed, its buffers are released and, on the accelerator,
\* the accelerator cache is cleared.
C25_BatchesInSequence == [][C25_Step]_vars

\* the encoder has been called for the second batch of a pass on the
\* accelerator: the first batch of two sections is stored
C25_Witness ==
    /\ em_pc = "aggregate"
    /\ em_device = "cuda"
    /\ em_encoder_calls = 2
    /\ em_batch_size = 2
    /\ em_i = 2
    /\ StoredForPass(em_sections[1])
    /\ StoredForPass(em_sections[2])

----------------------------------------------------------------------------
(* C28 *)

\* the store holds a vector of the model for section sec
HasVector(emb, sec, model) ==
    \E e \in emb : e.section_id = sec.id /\ e.embedding_model = model

\* the sections of the language scope that lack a vector of the model
Lacking(emb, model, language) ==
    { sec \in db_sections :
        /\ language # None => sec.language = language
        /\ ~HasVector(emb, sec, model) }

\* a step of a pass: when the encoder or a write fails in a batch, the rows
\* of the earlier batches stay, no row of the failing batch or of a later
\* one is stored, the status is 1 and the sections that lack a vector are
\* the ones from the failing batch on; a pass that starts targets exactly
\* the sections that lack a vector
C28_Step ==
    /\ (em_pc \in {"encode", "store", "release"} /\ em_pc' = "idle") =>
          /\ em_exit' = 1
          /\ ~em_conn'
          /\ \A j \in 1..em_i : HasVector(db_emb', em_sections[j], em_model)
          /\ \A j \in (em_i + 1)..Len(em_sections) :
                ~HasVector(db_emb', em_sections[j], em_model)
          /\ Lacking(db_emb', em_model, em_language) =
                { em_sections[j] : j \in (em_i + 1)..Len(em_sections) }
          /\ db_emb' \subseteq db_emb
          /\ \A e \in db_emb \ db_emb' :
                /\ e.embedding_model = em_model
                /\ \E j \in (em_i + 1)..Len(em_sections) :
                      e.section_id = em_sections[j].id
    /\ (em_pc = "idle" /\ em_pc' # "idle") =>
          /\ Range(em_sections') = Lacking(db_emb, em_model', em_language')
          /\ Len(em_sections') = Cardinality(Range(em_sections'))

\* C28: embedding rows are committed batch by batch: if the encoder call or
\* a write fails in batch k of an embedding pass, the rows of batches
\* 1..k-1 remain stored, no row of batch k is stored, the pass ends with a
\* failure status, and a later pass for the same model processes exactly
\* the sections that still lack a vector.
C28_FailureKeepsCommittedBatches == [][C28_Step]_vars

\* a pass of batch size 1 failed in its second batch: the pass ended with
\* status 1 and the row of the first section in query order, committed with
\* the first batch, is the only one stored
C28_Witness ==
    /\ em_pc = "idle"
    /\ em_exit = 1
    /\ ~em_conn
    /\ Cardinality(db_emb) = 1
    /\ \A e \in db_emb : e.embedding_model = "M" /\ e.section_id = 2

----------------------------------------------------------------------------
(* C26 *)

\* the rows the committed run added to table tables
NewTableRows == { r \in db_tables : r.id > rp_pre.seq.tables }

\* the markdown renderings of the tables the run extracted from its document
RunMarkdowns ==
    IF rp_doc.sections = <<>> THEN {}
    ELSE { rp_doc.tables[i].markdown : i \in DOMAIN rp_doc.tables } \ { <<>> }

\* C26: the set of seen table hashes is empty at the start of every
\* ingestion run: a committed run stored one row for every distinct table
\* markdown of its document, whether or not an earlier run, of the same or
\* of another language, stored a table of that markdown, and counted as
\* stored exactly these.
C26_SeenHashesPerRun ==
    rp_pc = "committed" =>
        /\ { r.markdown : r \in NewTableRows } = RunMarkdowns
        /\ Cardinality(NewTableRows) = Cardinality(RunMarkdowns)
        /\ \A r \in NewTableRows : r.language = rp_language
        /\ rp_stats.tables = Cardinality(RunMarkdowns)

\* the third run stored a table whose markdown earlier runs of both
\* languages had stored already
C26_Witness ==
    /\ rp_pc = "committed"
    /\ \E r \in NewTableRows : r.markdown = <<"X">>
    /\ \E r \in rp_pre.tables :
          r.markdown = <<"X">> /\ r.language = rp_language
    /\ \E r \in rp_pre.tables :
          r.markdown = <<"X">> /\ r.language # rp_language

----------------------------------------------------------------------------
(* C27 *)

\* the rows of a child table, within the validated language, whose
\* section_id is the id of no stored section
Dangling(children) ==
    { c \in children :
        /\ vd_language # None => c.language = vd_language
        /\ ~\E r \in db_sections : r.id = c.section_id }

\* C27: the validator records a critical issue whenever a code_examples
\* row or a tables row in the validated scope has a section_id that matches
\* no existing section, and records no such issue when every such row
\* references an existing section (for an invocation that found the store
\* and ran its checks).
C27_DanglingArtifactsCritical ==
    (\/ vd_pc \in {"statistics", "report", "returned"}
     \/ (vd_pc = "exited" /\ ValReported)) =>
        /\ (\E i \in vd_issues.critical : i.check = "orphaned_code")
              <=> Dangling(db_code) # {}
        /\ (\E i \in vd_issues.critical : i.check = "orphaned_tables")
              <=> Dangling(db_tables) # {}
        /\ \A i \in vd_issues.warning \cup vd_issues.info :
              i.check \notin {"orphaned_code", "orphaned_tables"}

\* a store whose code example and table point at a section that does not
\* exist was validated without a language option: both issues are critical
C27_Witness ==
    /\ vd_pc = "exited"
    /\ vd_language = None
    /\ db_sections # {}
    /\ Dangling(db_code) # {}
    /\ Dangling(db_tables) # {}
    /\ \E i \in vd_issues.critical : i.check = "orphaned_code" /\ i.count = 1
    /\ \E i \in vd_issues.critical : i.check = "orphaned_tables" /\ i.count = 1

----------------------------------------------------------------------------
(* C29 *)

\* C29: the number of deleted embeddings that a confirmed clear_embeddings
\* reports equals the number of section_embeddings rows it removed, for
\* every combination of filters and every store content, including a store
\* that also holds rows of other models or languages.
C29_ReportedCountIsRemoved ==
    ClearConfirmed => cl_deleted = Cardinality(cl_pre_emb \ db_emb)

----------------------------------------------------------------------------
(* C30 *)

\* a step of the fallback extractor: no section that was already closed
\* (appended to the list) gets another content, and afterwards no section
\* dict is in the list twice
C30_Step ==
    /\ \A k \in Range(fb_sections) : fb_heap'[k].content = fb_heap[k].content
    /\ \A i, j \in DOMAIN fb_sections' :
          i # j => fb_sections'[i] # fb_sections'[j]

\* C30: in the fallback (markdown) section extractor every numbered heading
\* yields at most one entry in the returned section list, and the text that
\* follows a heading without a numeric label is never attributed to, and
\* never replaces the content of, a section that was already closed.
C30_FallbackClosedSectionsFinal == [][C30_Step]_vars

====
